---------------------------- MODULE Spec2Model ----------------------------
(***************************************************************************)
(* A model of the analysis core of the stock dashboard:                    *)
(*   src/src/patterns.py    detect_candlestick_patterns,                   *)
(*                          get_pattern_insights                           *)
(*   src/src/kpis.py        compute_kpis                                   *)
(*   src/src/indicators.py  add_indicators                                 *)
(*                                                                         *)
(* Prices and volumes are integers.  Every comparison the code makes on    *)
(* floats is made here on exact rationals by cross-multiplication, and a   *)
(* quotient the code computes is a tagged value: a finite rational         *)
(* <<num, den>>, or one of the non-finite results (inf, nan) that numpy    *)
(* yields for a division by zero.                                          *)
(*                                                                         *)
(* Python indexes rows from 0; TLA+ sequences from 1.  The loop variable i *)
(* keeps Python's value, and row i of a frame is rows[i + 1].              *)
(***************************************************************************)
EXTENDS Integers, Sequences, FiniteSets, TLC

VARIABLES
    pc,         \* position of the running call
    df,         \* the caller's series: [cols, rows]
    df_sorted,  \* detect_candlestick_patterns: its sorted private copy
    i,          \* detect_candlestick_patterns: the loop index (0-based)
    patterns,   \* detect_candlestick_patterns: the events appended so far
    metadata,   \* compute_kpis: the optional metadata argument
    patterns_df,\* get_pattern_insights: the frame of events it is given
    seen,       \* the sentiment labels the dashboard has shown so far
    heap,       \* add_indicators: the DataFrame objects, by identity
    file,       \* load_stock_data: the CSV file it is given
    history,    \* the dashboard's calls of the detector: what each was
                \* passed and what it returned
    result      \* the value the call returned (or the error it raised)

vars == <<pc, df, df_sorted, i, patterns, metadata, patterns_df, seen, heap, file,
          history, result>>

\* The variables that are local to detect_candlestick_patterns
detect_locals == <<df_sorted, i, patterns>>

\* The arguments of a call
arguments == <<df, metadata, patterns_df, file>>

(***************************************************************************)
(* Bounds of the model.                                                    *)
(***************************************************************************)
MaxBars == 3

(***************************************************************************)
(* Frames.  A frame is [cols |-> set of column names, rows |-> sequence of *)
(* records]; an empty frame has no rows.                                   *)
(***************************************************************************)
OHLCV == {"Date", "Open", "High", "Low", "Close", "Volume"}

Frame(cols, rows) == [cols |-> cols, rows |-> rows]

EmptyFrame == Frame({}, <<>>)

\* What a call leaves in result: nothing yet, the value returned, or the
\* exception raised.
NoResult == [kind |-> "none"]

\* A heap without objects
NoObjects == <<>>

\* No file was uploaded
NoFile == [kind |-> "no file"]

\* A returned reference to the object obj of the heap
Ref(obj) == [kind |-> "ref", obj |-> obj]

Raised(exc) == [kind |-> "raised", exc |-> exc]

(***************************************************************************)
(* Numbers.  A value the code computes by a division is a finite rational  *)
(* or, when the divisor is zero, what numpy's float division gives:        *)
(* inf (with the sign of the dividend) or nan for 0/0.  The nan of 0/0 is  *)
(* a nan like any other to the code (its kind is "nan"); the model keeps   *)
(* apart from the nan that pandas puts where a value is missing only by    *)
(* the mark of its origin.                                                 *)
(***************************************************************************)
Fin(n, d) == [kind |-> "finite", num |-> n, den |-> d]

Num(n) == Fin(n, 1)

NaN == [kind |-> "nan"]

Inf(sign) == [kind |-> "inf", sign |-> sign]

PyNone == [kind |-> "None"]

\* The nan that the float division 0/0 gives
ZeroByZero == [kind |-> "nan", by |-> "0/0"]

Quot(n, d) ==
    IF d # 0 THEN Fin(n, d)
    ELSE IF n = 0 THEN ZeroByZero
    ELSE Inf(IF n > 0 THEN 1 ELSE -1)

IsFinite(v) == v.kind = "finite"

\* a > b and a < b as float comparisons: false when either side is nan (or
\* None); finite values have a denominator > 0.
GtV(a, b) ==
    \/ a.kind = "finite" /\ b.kind = "finite" /\ a.num * b.den > b.num * a.den
    \/ a.kind = "inf" /\ a.sign = 1 /\ b.kind = "finite"
    \/ a.kind = "finite" /\ b.kind = "inf" /\ b.sign = -1
    \/ a.kind = "inf" /\ b.kind = "inf" /\ a.sign > b.sign

LtV(a, b) == GtV(b, a)

EqV(a, b) ==
    \/ a.kind = "finite" /\ b.kind = "finite" /\ a.num * b.den = b.num * a.den
    \/ a.kind = "inf" /\ b.kind = "inf" /\ a.sign = b.sign

IsZero(v) == v.kind = "finite" /\ v.num = 0

Min2(a, b) == IF a <= b THEN a ELSE b

Max2(a, b) == IF a >= b THEN a ELSE b

Abs(x) == IF x < 0 THEN -x ELSE x

\* A bar with the given prices, at timestamp d.
Bar(d, o, h, l, c, v) ==
    [Date |-> d, Open |-> o, High |-> h, Low |-> l, Close |-> c, Volume |-> v]

(***************************************************************************)
(* PATTERN_DESCRIPTIONS: the catalog's score per pattern kind.             *)
(***************************************************************************)
PatternKinds ==
    {"Doji", "Hammer", "Shooting Star", "Bullish Engulfing", "Bearish Engulfing",
     "Bullish Marubozu", "Bearish Marubozu", "Morning Star", "Evening Star"}

\* The catalog with a Doji of score 2
PATTERN_SCORE_doji_2(pat_name) ==
    CASE pat_name \in {"Doji", "Bullish Marubozu", "Bearish Marubozu"} -> 2
      [] pat_name \in {"Hammer", "Shooting Star", "Bullish Engulfing", "Bearish Engulfing",
                       "Morning Star", "Evening Star"} -> 3
      [] OTHER -> 1

PATTERN_SCORE(pat_name) ==
    CASE pat_name = "Doji" -> 1
      [] pat_name = "Hammer" -> 3
      [] pat_name = "Shooting Star" -> 3
      [] pat_name = "Bullish Engulfing" -> 3
      [] pat_name = "Bearish Engulfing" -> 3
      [] pat_name = "Bullish Marubozu" -> 2
      [] pat_name = "Bearish Marubozu" -> 2
      [] pat_name = "Morning Star" -> 3
      [] pat_name = "Evening Star" -> 3
      [] OTHER -> 1

(***************************************************************************)
(* detect_candlestick_patterns                                             *)
(***************************************************************************)

\* SortByDate leaving the rows in the order they were handed over
SortByDate_as_given(rows) == rows

\* df.sort_values("Date").reset_index(drop=True): the rows in ascending
\* Date order (timestamps are distinct).
SortByDate(rows) ==
    [k \in 1..Len(rows) |->
        CHOOSE r \in {rows[j] : j \in 1..Len(rows)} :
            Cardinality({j \in 1..Len(rows) : rows[j].Date < r.Date}) = k - 1]

Body(r) == Abs(r.Close - r.Open)

Range(r) == r.High - r.Low

RollWindow == 14

\* The first 1-based row of the trailing window of rolling(window=14,
\* min_periods=1) that ends at 0-based index idx.
WindowStart(idx) == Max2(0, idx - RollWindow + 1) + 1

\* f[lo] + ... + f[hi], by halving the interval
RECURSIVE SumRange(_, _, _)
SumRange(f, lo, hi) ==
    IF lo > hi THEN 0
    ELSE IF lo = hi THEN f[lo]
    ELSE LET mid == (lo + hi) \div 2
         IN  SumRange(f, lo, mid) + SumRange(f, mid + 1, hi)

\* Avg_Body / Avg_Range at idx, as the rational <<sum, count>>; where the
\* average is not > 0 the code substitutes 0.001 = <<1, 1000>>.
Avg_Body(rows, idx) ==
    LET lo == WindowStart(idx)
        s == SumRange([k \in lo..(idx + 1) |-> Body(rows[k])], lo, idx + 1)
    IN  IF s > 0 THEN <<s, idx + 2 - lo>> ELSE <<1, 1000>>

Avg_Range(rows, idx) ==
    LET lo == WindowStart(idx)
        s == SumRange([k \in lo..(idx + 1) |-> Range(rows[k])], lo, idx + 1)
    IN  IF s > 0 THEN <<s, idx + 2 - lo>> ELSE <<1, 1000>>

\* x > (p/q) * avg and x < (p/q) * avg for avg = <<num, den>>, den > 0, q > 0
GtFrac(x, p, q, avg) == x * q * avg[2] > p * avg[1]

LtFrac(x, p, q, avg) == x * q * avg[2] < p * avg[1]

\* body > min_body_abs, with min_body_abs = close_price * 0.003
AboveMinBody(x, close_price) == 1000 * x > 3 * close_price

\* low <= min(open, close) <= high and low <= max(open, close) <= high
ValidOHLC(r) ==
    /\ r.Low <= Min2(r.Open, r.Close) /\ Min2(r.Open, r.Close) <= r.High
    /\ r.Low <= Max2(r.Open, r.Close) /\ Max2(r.Open, r.Close) <= r.High

upper_shadow(r) == r.High - Max2(r.Open, r.Close)

lower_shadow(r) == Min2(r.Open, r.Close) - r.Low

(***************************************************************************)
(* The rules of the loop body, each as the condition the code tests, at    *)
(* 0-based index idx of the sorted rows (cur = rows[idx+1]).               *)
(***************************************************************************)
Cur(rows, idx) == rows[idx + 1]

Prev(rows, idx) == rows[idx]

PrevPrev(rows, idx) == rows[idx - 1]

\* patterns.py 151-158
MorningStarCond(rows, idx) ==
    LET c == Cur(rows, idx)  p == Prev(rows, idx)  pp == PrevPrev(rows, idx)
        avg_body == Avg_Body(rows, idx)
    IN  /\ pp.Close < pp.Open
        /\ AboveMinBody(Body(pp), c.Close)
        /\ GtFrac(Body(pp), 8, 10, avg_body)
        /\ LtFrac(Body(p), 5, 10, avg_body)
        /\ c.Close > c.Open
        /\ AboveMinBody(Body(c), c.Close)
        /\ GtFrac(Body(c), 8, 10, avg_body)
        /\ 2 * c.Close > pp.Open + pp.Close

\* patterns.py 164-171
EveningStarCond(rows, idx) ==
    LET c == Cur(rows, idx)  p == Prev(rows, idx)  pp == PrevPrev(rows, idx)
        avg_body == Avg_Body(rows, idx)
    IN  /\ pp.Close > pp.Open
        /\ AboveMinBody(Body(pp), c.Close)
        /\ GtFrac(Body(pp), 8, 10, avg_body)
        /\ LtFrac(Body(p), 5, 10, avg_body)
        /\ c.Close < c.Open
        /\ AboveMinBody(Body(c), c.Close)
        /\ GtFrac(Body(c), 8, 10, avg_body)
        /\ 2 * c.Close < pp.Open + pp.Close

\* The Bullish Engulfing test with the engulfment compared by <= and >=
\* instead of < and >.
BullishEngulfingCondNonStrict(rows, idx) ==
    LET c == Cur(rows, idx)  p == Prev(rows, idx)
    IN  /\ p.Close < p.Open
        /\ c.Close > c.Open
        /\ c.Open <= p.Close
        /\ c.Close >= p.Open
        /\ AboveMinBody(Body(c), c.Close)
        /\ GtFrac(Body(c), 8, 10, Avg_Body(rows, idx))

\* patterns.py 185-190
BullishEngulfingCond(rows, idx) ==
    LET c == Cur(rows, idx)  p == Prev(rows, idx)
    IN  /\ p.Close < p.Open
        /\ c.Close > c.Open
        /\ c.Open < p.Close
        /\ c.Close > p.Open
        /\ AboveMinBody(Body(c), c.Close)
        /\ GtFrac(Body(c), 8, 10, Avg_Body(rows, idx))

\* patterns.py 196-201
BearishEngulfingCond(rows, idx) ==
    LET c == Cur(rows, idx)  p == Prev(rows, idx)
    IN  /\ p.Close > p.Open
        /\ c.Close < c.Open
        /\ c.Open > p.Close
        /\ c.Close < p.Open
        /\ AboveMinBody(Body(c), c.Close)
        /\ GtFrac(Body(c), 8, 10, Avg_Body(rows, idx))

\* patterns.py 212: body_ratio < 0.1 and total_range > 0
DojiCond(rows, idx) ==
    LET c == Cur(rows, idx)
    IN  10 * Body(c) < Range(c) /\ Range(c) > 0

\* patterns.py 220-224
HammerCond(rows, idx) ==
    LET c == Cur(rows, idx)
    IN  /\ Body(c) > 0
        /\ AboveMinBody(Range(c), c.Close)
        /\ lower_shadow(c) >= 2 * Body(c)
        /\ 10 * upper_shadow(c) <= Body(c)
        /\ GtFrac(Range(c), 8, 10, Avg_Range(rows, idx))

\* patterns.py 232-236
ShootingStarCond(rows, idx) ==
    LET c == Cur(rows, idx)
    IN  /\ Body(c) > 0
        /\ AboveMinBody(Range(c), c.Close)
        /\ upper_shadow(c) >= 2 * Body(c)
        /\ 10 * lower_shadow(c) <= Body(c)
        /\ GtFrac(Range(c), 8, 10, Avg_Range(rows, idx))

\* patterns.py 244-248: body_ratio > 0.97, shadows < 3% of body, body > 1.2 avg
MarubozuCond(rows, idx) ==
    LET c == Cur(rows, idx)
    IN  /\ 100 * Body(c) > 97 * Range(c)
        /\ AboveMinBody(Body(c), c.Close)
        /\ 100 * upper_shadow(c) < 3 * Body(c)
        /\ 100 * lower_shadow(c) < 3 * Body(c)
        /\ GtFrac(Body(c), 12, 10, Avg_Body(rows, idx))

Event(row, pattern, type, signal) ==
    [Date |-> row.Date, Pattern |-> pattern, Type |-> type, Signal |-> signal,
     Price |-> row.Close]

\* patterns.py 114-129: the bar is skipped (continue) before any rule is tried
Skipped(rows, idx) ==
    \/ ~ValidOHLC(Cur(rows, idx))
    \/ ~ValidOHLC(Prev(rows, idx))
    \/ Range(Cur(rows, idx)) = 0

\* patterns.py 140-174: the three-bar rules
ThreeBar(rows, idx) ==
    IF idx >= 2 /\ MorningStarCond(rows, idx)
    THEN <<Event(Cur(rows, idx), "Morning Star", "Bullish Reversal", "Bullish")>>
    ELSE IF idx >= 2 /\ EveningStarCond(rows, idx)
    THEN <<Event(Cur(rows, idx), "Evening Star", "Bearish Reversal", "Bearish")>>
    ELSE <<>>

\* patterns.py 179-204: the two-bar rules
TwoBar(rows, idx) ==
    IF BullishEngulfingCond(rows, idx)
    THEN <<Event(Cur(rows, idx), "Bullish Engulfing", "Bullish Reversal", "Bullish")>>
    ELSE IF BearishEngulfingCond(rows, idx)
    THEN <<Event(Cur(rows, idx), "Bearish Engulfing", "Bearish Reversal", "Bearish")>>
    ELSE <<>>

\* patterns.py 209-256: the single-bar rules
SingleBar(rows, idx) ==
    LET c == Cur(rows, idx)
    IN  IF DojiCond(rows, idx)
        THEN <<Event(c, "Doji", "Indecision", "Neutral")>>
        ELSE IF HammerCond(rows, idx)
        THEN <<Event(c, "Hammer", "Bullish Reversal", "Bullish")>>
        ELSE IF ShootingStarCond(rows, idx)
        THEN <<Event(c, "Shooting Star", "Bearish Reversal", "Bearish")>>
        ELSE IF MarubozuCond(rows, idx)
        THEN IF c.Close > c.Open
             THEN <<Event(c, "Bullish Marubozu", "Strong Bullish", "Bullish")>>
             ELSE <<Event(c, "Bearish Marubozu", "Strong Bearish", "Bearish")>>
        ELSE <<>>

\* The cascade of one iteration with the two-bar rules tried before the
\* three-bar rules.
DetectAtEngulfingFirst(rows, idx) ==
    IF Skipped(rows, idx) THEN <<>>
    ELSE IF TwoBar(rows, idx) # <<>> THEN TwoBar(rows, idx)
    ELSE IF ThreeBar(rows, idx) # <<>> THEN ThreeBar(rows, idx)
    ELSE SingleBar(rows, idx)

\* One iteration that appends an event for every tier that matches, as the
\* loop would without its "if detected_pattern is None" guards.
DetectAtEveryTier(rows, idx) ==
    IF Skipped(rows, idx) THEN <<>>
    ELSE ThreeBar(rows, idx) \o TwoBar(rows, idx) \o SingleBar(rows, idx)

\* DetectAt with a bar of zero range taken as a body of ratio 0, a Doji,
\* instead of being skipped
DetectAtZeroRangeDoji(rows, idx) ==
    IF ~ValidOHLC(Cur(rows, idx)) \/ ~ValidOHLC(Prev(rows, idx)) THEN <<>>
    ELSE IF Range(Cur(rows, idx)) = 0
    THEN <<Event(Cur(rows, idx), "Doji", "Indecision", "Neutral")>>
    ELSE IF ThreeBar(rows, idx) # <<>> THEN ThreeBar(rows, idx)
    ELSE IF TwoBar(rows, idx) # <<>> THEN TwoBar(rows, idx)
    ELSE SingleBar(rows, idx)

\* patterns.py 85-265: one iteration of the loop: what it appends to patterns
\* for bar idx, <<>> or one event.  detected_pattern stays None exactly when
\* a tier yields <<>>.
DetectAt(rows, idx) ==
    IF Skipped(rows, idx) THEN <<>>
    ELSE IF ThreeBar(rows, idx) # <<>> THEN ThreeBar(rows, idx)
    ELSE IF TwoBar(rows, idx) # <<>> THEN TwoBar(rows, idx)
    ELSE SingleBar(rows, idx)

EventCols == {"Date", "Pattern", "Type", "Signal", "Price"}

required_cols == {"Date", "Open", "High", "Low", "Close"}

(***************************************************************************)
(* The series the detector is run on.  A shape is <<open, high, low,       *)
(* close>>; the set holds a bar for each rule, bars on the rules'          *)
(* boundaries, two bars that violate the OHLC invariant, and a bar of zero *)
(* range.                                                                  *)
(***************************************************************************)
BarShapes ==
    { <<20, 21,  9, 10>>,   \* large bearish body
      <<10, 21,  9, 20>>,   \* large bullish body
      <<10, 11,  9, 10>>,   \* no body
      <<20, 20,  8, 19>>,   \* small bearish body, long lower shadow
      <<19, 21, 18, 20>>,   \* small bullish body
      << 9, 22,  8, 21>>,   \* bullish, engulfs a body within 9..21
      <<21, 22,  9, 10>>,   \* bearish, engulfs a body within 10..21
      <<18, 20, 10, 20>>,   \* long lower shadow, body 20% of the range
      <<19, 20, 10, 20>>,   \* long lower shadow, body exactly 10% of the range
      <<12, 20, 10, 10>>,   \* long upper shadow
      <<10, 20, 10, 20>>,   \* bullish, no shadows
      <<20, 20, 10, 10>>,   \* bearish, no shadows
      <<20, 15,  9, 10>>,   \* High below Open: violates the OHLC invariant
      <<10, 21, 12, 20>>,   \* Low above Open: violates the OHLC invariant
      <<10, 10, 10, 10>> }  \* zero range

\* The frame whose k-th row has shape shapes[k] and timestamp dates[k]; the
\* detector does not read Volume, which is 100 on every bar.
SeriesOf(shapes, dates) ==
    Frame(OHLCV,
          [k \in 1..Len(shapes) |->
              Bar(dates[k], shapes[k][1], shapes[k][2], shapes[k][3], shapes[k][4],
                  100)])

Ascending(n) == [k \in 1..n |-> k]

Descending(n) == [k \in 1..n |-> n + 1 - k]

\* The series of section 8's scenario, in tenths of the price unit:
\* (open=10,close=12,high=13,low=9), (open=12,close=9,high=12.5,low=8.5),
\* (open=9,close=14,high=14,low=8.8)
Scenario3 ==
    SeriesOf(<< <<100, 130, 90, 120>>, <<120, 125, 85, 90>>, <<90, 140, 88, 140>> >>,
             Ascending(3))

\* The inputs of a run: the scenario's series, or 1..MaxBars bars of any
\* shapes, handed over in ascending or in descending Date order.
IsDetectInput(f) ==
    \/ f = Scenario3
    \/ \E n \in 1..MaxBars :
          \E shapes \in [1..n -> BarShapes] :
             \E dates \in {Ascending(n), Descending(n)} :
                f = SeriesOf(shapes, dates)

InitDetect ==
    /\ pc = "detect_call"
    /\ IsDetectInput(df)
    /\ df_sorted = EmptyFrame
    /\ i = 0
    /\ patterns = <<>>
    /\ metadata = PyNone
    /\ patterns_df = EmptyFrame
    /\ seen = {}
    /\ heap = NoObjects
    /\ file = NoFile
    /\ history = <<>>
    /\ result = NoResult

\* detect_begin sorting the frame it was passed in place, instead of a copy
detect_begin_in_place ==
    /\ pc = "detect_call"
    /\ IF "Date" \notin df.cols
       THEN /\ pc' = "raised"
            /\ result' = Raised("KeyError")
            /\ UNCHANGED <<df, df_sorted, i>>
       ELSE IF ~(required_cols \subseteq df.cols)
       THEN /\ pc' = "done"
            /\ result' = Frame(EventCols, <<>>)
            /\ df' = Frame(df.cols, SortByDate(df.rows))
            /\ df_sorted' = df'
            /\ UNCHANGED i
       ELSE /\ pc' = "detect_loop"
            /\ df' = Frame(df.cols, SortByDate(df.rows))
            /\ df_sorted' = df'
            /\ i' = 1
            /\ UNCHANGED result
    /\ UNCHANGED <<metadata, patterns_df, file, history, patterns, seen, heap>>

\* patterns.py 69-83: the sorted copy, the required-columns check, and the
\* start of the loop at i = 1.
detect_begin ==
    /\ pc = "detect_call"
    /\ IF "Date" \notin df.cols
       THEN \* sort_values("Date") raises KeyError
            /\ pc' = "raised"
            /\ result' = Raised("KeyError")
            /\ UNCHANGED <<df_sorted, i>>
       ELSE IF ~(required_cols \subseteq df.cols)
       THEN /\ pc' = "done"
            /\ result' = Frame(EventCols, <<>>)
            /\ df_sorted' = Frame(df.cols, SortByDate(df.rows))
            /\ UNCHANGED i
       ELSE /\ pc' = "detect_loop"
            /\ df_sorted' = Frame(df.cols, SortByDate(df.rows))
            /\ i' = 1
            /\ UNCHANGED result
    /\ UNCHANGED <<arguments, history, patterns, seen, heap>>

\* patterns.py 85-265: one iteration of "for i in range(1, len(df_sorted))"
detect_bar ==
    /\ pc = "detect_loop"
    /\ i < Len(df_sorted.rows)
    /\ patterns' = patterns \o DetectAt(df_sorted.rows, i)
    /\ i' = i + 1
    /\ UNCHANGED <<pc, arguments, history, df_sorted, seen, heap, result>>

\* patterns.py 267-272: the loop is over; the events are returned as a frame
detect_return ==
    /\ pc = "detect_loop"
    /\ i >= Len(df_sorted.rows)
    /\ result' = Frame(EventCols, patterns)
    /\ pc' = "done"
    /\ UNCHANGED <<arguments, history, detect_locals, seen, heap>>

NextDetect == detect_begin \/ detect_bar \/ detect_return

SpecDetect == InitDetect /\ [][NextDetect]_vars

(***************************************************************************)
(* Claims about detect_candlestick_patterns, checked under SpecDetect.     *)
(***************************************************************************)

\* The 0-based index, in the sorted rows, of the bar with timestamp d.
IdxOfDate(rows, d) == (CHOOSE k \in 1..Len(rows) : rows[k].Date = d) - 1

\* The events emitted so far for the bar at 0-based index idx.
EventsOfBar(idx) ==
    {a \in 1..Len(patterns) : patterns[a].Date = df_sorted.rows[idx + 1].Date}

\* C1: the detector emits at most one event per bar of the series and never
\* an event for the first bar (index 0); the frame it returns holds exactly
\* those events.
C1_AtMostOneEventPerBar ==
    /\ \A a, b \in 1..Len(patterns) :
          a # b => patterns[a].Date # patterns[b].Date
    /\ \A a \in 1..Len(patterns) : patterns[a].Date # df_sorted.rows[1].Date
    /\ pc = "done" => result.rows = patterns

\* C1's case: a series of MaxBars bars in which every bar but the first has
\* its event.
C1_Witness ==
    /\ pc = "done"
    /\ Len(df.rows) = MaxBars
    /\ Len(result.rows) = MaxBars - 1

\* The rules in their priority order; both Marubozu kinds are rule 8.
RuleNames ==
    <<"Morning Star", "Evening Star", "Bullish Engulfing", "Bearish Engulfing",
      "Doji", "Hammer", "Shooting Star", "Marubozu">>

RuleHolds(r, rows, idx) ==
    CASE r = 1 -> idx >= 2 /\ MorningStarCond(rows, idx)
      [] r = 2 -> idx >= 2 /\ EveningStarCond(rows, idx)
      [] r = 3 -> BullishEngulfingCond(rows, idx)
      [] r = 4 -> BearishEngulfingCond(rows, idx)
      [] r = 5 -> DojiCond(rows, idx)
      [] r = 6 -> HammerCond(rows, idx)
      [] r = 7 -> ShootingStarCond(rows, idx)
      [] r = 8 -> MarubozuCond(rows, idx)

RuleOf(pattern) ==
    CASE pattern = "Morning Star" -> 1
      [] pattern = "Evening Star" -> 2
      [] pattern = "Bullish Engulfing" -> 3
      [] pattern = "Bearish Engulfing" -> 4
      [] pattern = "Doji" -> 5
      [] pattern = "Hammer" -> 6
      [] pattern = "Shooting Star" -> 7
      [] pattern \in {"Bullish Marubozu", "Bearish Marubozu"} -> 8

RulesHolding(rows, idx) == {r \in 1..Len(RuleNames) : RuleHolds(r, rows, idx)}

\* C2: for every bar the loop has passed and did not skip, the event emitted
\* is the one of the highest-priority rule whose conditions the bar meets
\* (Morning/Evening Star, then Bullish/Bearish Engulfing, then Doji, Hammer,
\* Shooting Star, Marubozu), and no event is emitted when no rule's
\* conditions are met.
C2_FirstMatchWins ==
    \A idx \in 1..(i - 1) :
        ~Skipped(df_sorted.rows, idx) =>
            LET S == RulesHolding(df_sorted.rows, idx)
            IN  IF S = {}
                THEN EventsOfBar(idx) = {}
                ELSE \E a \in 1..Len(patterns) :
                        /\ EventsOfBar(idx) = {a}
                        /\ \A r \in S : RuleOf(patterns[a].Pattern) <= r
                        /\ RuleOf(patterns[a].Pattern) \in S

\* C2's case: bar 1 meets both the Doji and the Hammer conditions and is
\* emitted as Doji, and bar 2 meets both the Morning Star and the Bullish
\* Engulfing conditions and is emitted as Morning Star.
C2_Witness ==
    /\ pc = "done"
    /\ Len(df_sorted.rows) >= 3
    /\ ~Skipped(df_sorted.rows, 1)
    /\ {5, 6} \subseteq RulesHolding(df_sorted.rows, 1)
    /\ \E a \in EventsOfBar(1) : patterns[a].Pattern = "Doji"
    /\ ~Skipped(df_sorted.rows, 2)
    /\ {1, 3} \subseteq RulesHolding(df_sorted.rows, 2)
    /\ \E a \in EventsOfBar(2) : patterns[a].Pattern = "Morning Star"

\* C3 as claimed: for the scenario's 3-bar series the detector emits a
\* "Morning Star" event at bar index 2 with signal Bullish.
C3_ScenarioEmitsMorningStar ==
    (pc = "done" /\ df = Scenario3) =>
        \E a \in 1..Len(result.rows) :
            /\ result.rows[a].Date = df_sorted.rows[3].Date
            /\ result.rows[a].Pattern = "Morning Star"
            /\ result.rows[a].Signal = "Bullish"

\* C3 as amended: for the scenario's 3-bar series the detector emits no
\* event at all: the first bar is bullish and the middle bar's body is not
\* small, so bar 2 is no Morning Star, and no other rule matches bar 1 or 2.
C3_ScenarioEmitsNothing ==
    (pc = "done" /\ df = Scenario3) => result = Frame(EventCols, <<>>)

\* C3's case: the detector has run on the scenario's series.
C3_Witness == pc = "done" /\ df = Scenario3 /\ i = 3

ThreeBarKinds == {"Morning Star", "Evening Star"}

TwoBarKinds == {"Bullish Engulfing", "Bearish Engulfing"}

\* C4: no emitted event uses a bar that violates the OHLC invariant: not as
\* the event's own bar, not as the previous bar of a two-bar pattern, and
\* not as the first or middle bar of a three-bar pattern.
C4_InvalidBarsExcluded ==
    \A a \in 1..Len(patterns) :
        LET idx == IdxOfDate(df_sorted.rows, patterns[a].Date)
        IN  /\ ValidOHLC(Cur(df_sorted.rows, idx))
            /\ patterns[a].Pattern \in TwoBarKinds \cup ThreeBarKinds
                  => ValidOHLC(Prev(df_sorted.rows, idx))
            /\ patterns[a].Pattern \in ThreeBarKinds
                  => ValidOHLC(PrevPrev(df_sorted.rows, idx))

\* C15: a bar of zero range (high = low) at an index >= 1 yields no event
\* of any kind, whatever its neighbours are.
C15_ZeroRangeNoEvent ==
    \A a \in 1..Len(patterns) :
        LET idx == IdxOfDate(df_sorted.rows, patterns[a].Date)
        IN  Cur(df_sorted.rows, idx).High # Cur(df_sorted.rows, idx).Low

\* C15's case: the detector has run over a series with a valid bar of zero
\* range at an index >= 1, and has emitted an event on another bar.
C15_Witness ==
    /\ pc = "done"
    /\ result.rows # <<>>
    /\ \E idx \in 1..(Len(df_sorted.rows) - 1) :
          /\ Range(Cur(df_sorted.rows, idx)) = 0
          /\ ValidOHLC(Cur(df_sorted.rows, idx))
          /\ ValidOHLC(Prev(df_sorted.rows, idx))

\* The bars handed over, by timestamp: the k-th is the bar whose timestamp
\* is k (the timestamps of a series of n bars are 1..n)
BarsByTimestamp ==
    [k \in 1..Len(df.rows) |->
        df.rows[CHOOSE j \in 1..Len(df.rows) : df.rows[j].Date = k]]

\* The events of the cascade on the bars at indices 1..idx of rows
RECURSIVE EventsUpTo(_, _)
EventsUpTo(rows, idx) ==
    IF idx <= 0 THEN <<>> ELSE EventsUpTo(rows, idx - 1) \o DetectAt(rows, idx)

\* C28: the events returned by detect_candlestick_patterns are in strictly
\* increasing timestamp order for any row order of the input, so that the
\* last event is the one of greatest timestamp, and the result does not
\* depend on the order in which the caller supplies the bars: it is the
\* result for the bars taken by timestamp.
C28_EventsInTimestampOrder ==
    /\ \A a, b \in 1..Len(patterns) : a < b => patterns[a].Date < patterns[b].Date
    /\ (pc = "done" /\ required_cols \subseteq df.cols) =>
          /\ \A a, b \in 1..Len(result.rows) :
                a < b => result.rows[a].Date < result.rows[b].Date
          /\ result.rows = EventsUpTo(BarsByTimestamp, Len(df.rows) - 1)

\* C28's case: the bars were handed over latest first, and the detector
\* has returned two events, the later one last.
C28_Witness ==
    /\ pc = "done"
    /\ Len(df.rows) = 3
    /\ df.rows[1].Date > df.rows[2].Date /\ df.rows[2].Date > df.rows[3].Date
    /\ Len(result.rows) = 2
    /\ result.rows[1].Date = 2 /\ result.rows[2].Date = 3
    /\ result.rows[1].Pattern # result.rows[2].Pattern

\* C27: a valid bar of non-zero range that matches no three-bar and no
\* two-bar pattern is emitted as a Doji (signal Neutral, category
\* Indecision) whenever its body is at most 10% of its total range, also
\* when the body is exactly 10% of the range.
C27_DojiAtTenPercent ==
    pc = "done" =>
        \A idx \in 1..(Len(df_sorted.rows) - 1) :
            LET c == Cur(df_sorted.rows, idx)
            IN  (/\ ~Skipped(df_sorted.rows, idx)
                 /\ ThreeBar(df_sorted.rows, idx) = <<>>
                 /\ TwoBar(df_sorted.rows, idx) = <<>>
                 /\ 10 * Abs(c.Close - c.Open) <= c.High - c.Low)
                => \E a \in 1..Len(result.rows) :
                      /\ result.rows[a].Date = c.Date
                      /\ result.rows[a].Pattern = "Doji"
                      /\ result.rows[a].Signal = "Neutral"
                      /\ result.rows[a].Type = "Indecision"

(***************************************************************************)
(* The dashboard running the detector twice on the series it holds         *)
(* (app.py 94, once per run of the script).  history records what each     *)
(* call was passed and what it returned.                                   *)
(***************************************************************************)
DetectRuns == 2

InitRepeat ==
    /\ pc = "app"
    /\ IsDetectInput(df)
    /\ df_sorted = EmptyFrame
    /\ i = 0
    /\ patterns = <<>>
    /\ metadata = PyNone
    /\ patterns_df = EmptyFrame
    /\ seen = {}
    /\ heap = NoObjects
    /\ file = NoFile
    /\ history = <<>>
    /\ result = NoResult

\* app.py 94: the call detect_candlestick_patterns(df)
app_call_detect ==
    /\ pc = "app"
    /\ Len(history) < DetectRuns
    /\ history' = Append(history, [input |-> df, output |-> NoResult])
    /\ df_sorted' = EmptyFrame
    /\ i' = 0
    /\ patterns' = <<>>
    /\ result' = NoResult
    /\ pc' = "detect_call"
    /\ UNCHANGED <<arguments, seen, heap>>

\* app.py 94: patterns_df = the frame returned
app_receive ==
    /\ pc = "done"
    /\ history' = [history EXCEPT ![Len(history)].output = result]
    /\ patterns_df' = result
    /\ pc' = "app"
    /\ UNCHANGED <<df, metadata, file, detect_locals, seen, heap, result>>

NextRepeat == app_call_detect \/ NextDetect \/ app_receive

SpecRepeat == InitRepeat /\ [][NextRepeat]_vars

\* C16: detection is repeatable: the first run leaves the series it was
\* passed unchanged, so the second run is passed the same series, and it
\* returns the same events in the same order.
C16_Repeatable ==
    /\ \A a \in 1..Len(history) : history[a].input = history[1].input
    /\ Len(history) >= 1 => df = history[1].input
    /\ \A a, b \in 1..Len(history) :
          (history[a].output # NoResult /\ history[b].output # NoResult)
          => history[a].output = history[b].output

\* C16's case: two runs are done on a series handed over out of Date order,
\* and each returned the same two events.
C16_Witness ==
    /\ pc = "app"
    /\ Len(history) >= 2
    /\ Len(df.rows) >= 2 /\ df.rows[1].Date > df.rows[2].Date
    /\ Len(history[1].output.rows) = 2
    /\ history[2].output.rows = history[1].output.rows

(***************************************************************************)
(* compute_kpis                                                            *)
(***************************************************************************)

\* kpis.py 13-21: the bundle returned for an empty series
EmptyKpis ==
    [latest_price |-> Num(0), daily_return_pct |-> Num(0), high_value |-> Num(0),
     high_label |-> "Period High", volatility_pct |-> Num(0), avg_volume |-> Num(0)]

\* A metadata argument: None, or a dict (a function from its keys).
Dict(items) == [kind |-> "dict", items |-> items]

\* kpis.py 32: metadata.get("previous_close") if metadata else None; an empty
\* dict is falsy, and get answers None for a missing key.
prev_close_of(md) ==
    IF md.kind = "dict" /\ DOMAIN md.items # {}
    THEN IF "previous_close" \in DOMAIN md.items
         THEN md.items["previous_close"] ELSE PyNone
    ELSE PyNone

\* kpis.py 34: "prev_close and not pd.isna(prev_close)": None and 0 are falsy,
\* nan is truthy but isna.
UsablePrevClose(v) == v.kind = "finite" /\ v.num # 0

\* ((latest_price - base) / base) * 100 for an integer base
PctReturn(latest_price, base) == Quot((latest_price - base) * 100, base)

\* kpis.py 31-47
daily_return_pct_of(f, md) ==
    LET n == Len(f.rows)
        latest_price == f.rows[n].Close
        prev_close == prev_close_of(md)
    IN  IF UsablePrevClose(prev_close)
        THEN PctReturn(latest_price, prev_close.num)
        ELSE IF n > 1
        THEN PctReturn(latest_price, f.rows[n - 1].Close)
        ELSE IF f.rows[n].Open # 0
        THEN PctReturn(latest_price, f.rows[n].Open)
        ELSE Num(0)

\* The largest High among rows lo..hi (1-based, lo <= hi).
MaxHigh(rows, lo, hi) ==
    CHOOSE h \in {rows[k].High : k \in lo..hi} :
        \A k \in lo..hi : rows[k].High <= h

Threshold52W == 200

Lookback52W == 252

\* kpis.py 50-58 with the threshold off by one (> instead of >=)
high_of_strict(f) ==
    LET data_points == Len(f.rows)
    IN  IF data_points > Threshold52W
        THEN LET lookback == Min2(Lookback52W, data_points)
             IN  [value |-> MaxHigh(f.rows, data_points - lookback + 1, data_points),
                  label |-> "52W High"]
        ELSE [value |-> MaxHigh(f.rows, 1, data_points), label |-> "Period High"]

\* kpis.py 50-58
high_of(f) ==
    LET data_points == Len(f.rows)
    IN  IF data_points >= Threshold52W
        THEN LET lookback == Min2(Lookback52W, data_points)
             IN  [value |-> MaxHigh(f.rows, data_points - lookback + 1, data_points),
                  label |-> "52W High"]
        ELSE [value |-> MaxHigh(f.rows, 1, data_points), label |-> "Period High"]

\* df["Close"].pct_change() at 1-based row k >= 2
PctChange(rows, k) == Quot(rows[k].Close - rows[k - 1].Close, rows[k - 1].Close)

\* kpis.py 61-65.  daily_returns is pct_change().dropna(): the first row and
\* every 0/0 are dropped, an inf stays.  The sample standard deviation
\* (ddof = 1) is nan for fewer than two values and for values that include
\* an inf; otherwise it is a finite float >= 0, whose magnitude is not
\* modelled here (FiniteStd).
FiniteStd == [kind |-> "finite", of |-> "std * sqrt(252) * 100"]

volatility_pct_of(f) ==
    LET n == Len(f.rows)
        daily_returns == {k \in 2..n : PctChange(f.rows, k).kind # "nan"}
    IN  IF n > 1
        THEN IF Cardinality(daily_returns) < 2 THEN NaN
             ELSE IF \E k \in daily_returns : PctChange(f.rows, k).kind = "inf"
             THEN NaN
             ELSE FiniteStd
        ELSE Num(0)

\* kpis.py 68: df["Volume"].mean()
avg_volume_of(f) ==
    Fin(SumRange([k \in 1..Len(f.rows) |-> f.rows[k].Volume], 1, Len(f.rows)),
        Len(f.rows))

\* kpis.py 23-77: the bundle for a series that is not empty
kpis_of(f, md) ==
    [latest_price |-> Num(f.rows[Len(f.rows)].Close),
     daily_return_pct |-> daily_return_pct_of(f, md),
     high_value |-> Num(high_of(f).value),
     high_label |-> high_of(f).label,
     volatility_pct |-> volatility_pct_of(f),
     avg_volume |-> avg_volume_of(f)]

\* compute_kpis without its empty-series guard: df["Close"].iloc[-1] raises
\* IndexError on an empty series.
compute_kpis_no_guard(f, md) ==
    IF f.rows = <<>> THEN Raised("IndexError") ELSE kpis_of(f, md)

\* kpis.py 5-77
compute_kpis(f, md) ==
    IF f.rows = <<>> THEN EmptyKpis ELSE kpis_of(f, md)

(***************************************************************************)
(* The series compute_kpis is run on: n bars that all are                  *)
(* (open 10, high 25, low 0, close 10, volume 100), except that the bar at *)
(* position peak has the high 30, the last bar has the open last_open and  *)
(* the close last_close, and the bar before it the close prev_close.       *)
(***************************************************************************)
KpiExtraBars == 2

KpiLengths ==
    {0, 1, 2, 3}
        \cup ((Threshold52W - 1)..(Threshold52W + 1))
        \cup (Lookback52W..(Lookback52W + KpiExtraBars))

KpiSeries(n, peak, prev_close, last_close, last_open) ==
    Frame(OHLCV,
          [k \in 1..n |->
              Bar(k,
                  IF k = n THEN last_open ELSE 10,
                  IF k = peak THEN 30 ELSE 25,
                  0,
                  IF k = n THEN last_close ELSE IF k = n - 1 THEN prev_close ELSE 10,
                  100)])

\* The positions tried for the highest bar: none (0), the ends of the series
\* and the two sides of the start of the 252-bar lookback.
PeakPositions(n) ==
    {0} \cup ({1, n - Lookback52W, n - Lookback52W + 1, n} \cap (1..n))

KpiMetadata ==
    {PyNone, Dict(<<>>), Dict([source |-> Num(1)])}
        \cup {Dict([previous_close |-> v]) : v \in {PyNone, NaN, Num(0), Num(8)}}

InitKpi ==
    /\ pc = "kpi_call"
    /\ \E n \in KpiLengths :
         \E peak \in PeakPositions(n) :
            \E prev_close \in {0, 10}, last_close \in {0, 10, 20}, last_open \in {0, 10} :
               df = KpiSeries(n, peak, prev_close, last_close, last_open)
    /\ metadata \in KpiMetadata
    /\ df_sorted = EmptyFrame
    /\ i = 0
    /\ patterns = <<>>
    /\ patterns_df = EmptyFrame
    /\ seen = {}
    /\ heap = NoObjects
    /\ file = NoFile
    /\ history = <<>>
    /\ result = NoResult

\* kpis.py 5-77: the call
compute_kpis_call ==
    /\ pc = "kpi_call"
    /\ result' = compute_kpis(df, metadata)
    /\ pc' = "done"
    /\ UNCHANGED <<arguments, history, detect_locals, seen, heap>>

NextKpi == compute_kpis_call

SpecKpi == InitKpi /\ [][NextKpi]_vars

(***************************************************************************)
(* Claims about compute_kpis, checked under SpecKpi.                       *)
(***************************************************************************)

\* C5: for any series that is not empty (one whose previous bar's Close is 0
\* included) no step of the baseline chain (supplied previous_close, then
\* the previous bar's Close, then the latest bar's Open) divides by a zero
\* baseline, so the returned daily_return_pct is a finite number.
C5_DailyReturnFinite ==
    (pc = "done" /\ df.rows # <<>>) => IsFinite(result.daily_return_pct)

\* C6: on an empty series compute_kpis raises nothing and returns a bundle
\* whose latest_price, daily_return_pct, high_value, volatility_pct and
\* avg_volume are all 0 and whose high_label is "Period High", with or
\* without metadata.
C6_EmptySeriesAllZero ==
    (pc = "done" /\ df.rows = <<>>) =>
        /\ DOMAIN result = DOMAIN EmptyKpis
        /\ IsZero(result.latest_price)
        /\ IsZero(result.daily_return_pct)
        /\ IsZero(result.high_value)
        /\ IsZero(result.volatility_pct)
        /\ IsZero(result.avg_volume)
        /\ result.high_label = "Period High"

\* C6's case: the call has returned for an empty series given with a
\* previous_close in its metadata.
C6_Witness ==
    /\ pc = "done"
    /\ df.rows = <<>>
    /\ metadata = Dict([previous_close |-> Num(8)])

\* The bars of the series are well formed: positive open and close, between
\* the low and the high, and a volume that is not negative
WellFormedBars(f) ==
    \A k \in 1..Len(f.rows) :
        LET b == f.rows[k]
        IN  /\ b.Open > 0 /\ b.Close > 0
            /\ b.Low <= Min2(b.Open, b.Close)
            /\ Max2(b.Open, b.Close) <= b.High
            /\ b.Volume >= 0

\* C24: for every series of well-formed bars that is not empty, every
\* numeric KPI returned by compute_kpis is a finite number; in particular
\* volatility_pct is finite for a series of exactly two bars (one daily
\* return) and for a series of one bar.
C24_KpisFinite ==
    (pc = "done" /\ df.rows # <<>> /\ WellFormedBars(df)) =>
        /\ IsFinite(result.latest_price)
        /\ IsFinite(result.daily_return_pct)
        /\ IsFinite(result.high_value)
        /\ IsFinite(result.volatility_pct)
        /\ IsFinite(result.avg_volume)

\* h is the largest High of rows lo..hi
IsMaxHigh(h, rows, lo, hi) ==
    /\ \E k \in lo..hi : rows[k].High = h
    /\ \A k \in lo..hi : rows[k].High <= h

\* C7: the high is labelled "52W High" exactly when the series has at least
\* 200 bars, and high_value is then the largest High of the last min(252, N)
\* bars; with 1..199 bars the label is "Period High" and high_value is the
\* largest High of the whole series.
C7_HighLabelAt200 ==
    (pc = "done" /\ df.rows # <<>>) =>
        LET n == Len(df.rows)
        IN  /\ (result.high_label = "52W High") <=> (n >= 200)
            /\ n >= 200 =>
                  /\ result.high_value.kind = "finite"
                  /\ result.high_value.den = 1
                  /\ IsMaxHigh(result.high_value.num, df.rows,
                               n - Min2(252, n) + 1, n)
            /\ n < 200 =>
                  /\ result.high_label = "Period High"
                  /\ result.high_value.kind = "finite"
                  /\ result.high_value.den = 1
                  /\ IsMaxHigh(result.high_value.num, df.rows, 1, n)

\* C7's case: a series of more than 252 bars whose highest bar lies before
\* the last 252, so that the 52W high is below the high of the whole series.
C7_Witness ==
    /\ pc = "done"
    /\ Len(df.rows) > 252
    /\ result.high_label = "52W High"
    /\ \E k \in 1..Len(df.rows) : df.rows[k].High > result.high_value.num

(***************************************************************************)
(* calculate_pattern_accuracy                                              *)
(***************************************************************************)

ForwardBars == 3

\* patterns.py 289: df["Close"].shift(-3) / df["Close"] - 1 at 1-based row
\* k: nan on the last three rows.
future_return(f, k) ==
    IF k + ForwardBars > Len(f.rows) THEN NaN
    ELSE Quot(f.rows[k + ForwardBars].Close - f.rows[k].Close, f.rows[k].Close)

\* patterns.py 292: returns_map[date]: dict(zip(...)) keeps the last row of a
\* date; PyNone when the date is not a key.
returns_map(f, date) ==
    LET ks == {k \in 1..Len(f.rows) : f.rows[k].Date = date}
    IN  IF ks = {} THEN PyNone
        ELSE future_return(f, CHOOSE k \in ks : \A j \in ks : j <= k)

\* patterns.py 304: the event has a known forward outcome
Countable(f, e) == returns_map(f, e.Date).kind \notin {"None", "nan"}

\* ret > 0.005 on the binary64 values of the code, for ret = c / p - 1 with
\* c and p small integers.  The quotient c / p is correctly rounded and the
\* subtraction of 1 is exact, so the doubles compare as the rationals do
\* unless c / p is exactly 201/200; that quotient rounds down to
\* 1.00499999999999989, and ret = 0.004999999999999893 is not above the
\* double 0.005.
AboveHalfPct(ret) == GtV(ret, Fin(5, 1000))

\* ret < -0.005 on the binary64 values of the code: as the rationals compare,
\* unless c / p is exactly 199/200; that quotient rounds down to
\* 0.99499999999999999556, and ret = -0.0050000000000000044 is below the
\* double -0.005 (-0.005000000000000000104).
BelowMinusHalfPct(ret) == LtV(ret, Fin(-5, 1000)) \/ EqV(ret, Fin(-5, 1000))

\* patterns.py 310-313: ret > 0.005 for Bullish, ret < -0.005 for Bearish
IsWin(f, e) ==
    \/ e.Signal = "Bullish" /\ AboveHalfPct(returns_map(f, e.Date))
    \/ e.Signal = "Bearish" /\ BelowMinusHalfPct(returns_map(f, e.Date))

MinOccurrences == 3

\* patterns.py 294-319: the entry of accuracy_map for pattern kind p_name.
\* int((wins / total) * 100) is the floor of the exact percentage for every
\* total below 50.
accuracy_of(f, events, p_name) ==
    LET subset == {a \in 1..Len(events) : events[a].Pattern = p_name}
        counted == {a \in subset : Countable(f, events[a])}
        total == Cardinality(counted)
        wins == Cardinality({a \in counted : IsWin(f, events[a])})
    IN  IF total >= MinOccurrences
        THEN [win_rate |-> (wins * 100) \div total, total |-> total]
        ELSE [insufficient |-> "Insufficient history"]

\* patterns.py 275-321: accuracy_map, a function from the pattern kinds that
\* occur to their entries; empty when either frame is empty.
calculate_pattern_accuracy(f, pats) ==
    IF pats.rows = <<>> \/ f.rows = <<>> THEN <<>>
    ELSE [p_name \in {pats.rows[a].Pattern : a \in 1..Len(pats.rows)} |->
             accuracy_of(f, pats.rows, p_name)]

(***************************************************************************)
(* get_pattern_insights(patterns_df, df)                                   *)
(***************************************************************************)

\* patterns.py 328-338: the insight for an empty patterns_df
EmptyInsight ==
    [summary |-> <<"No significant candlestick patterns detected">>,
     sentiment |-> "Neutral",
     bullish_count |-> 0, bearish_count |-> 0, neutral_count |-> 0,
     latest_pattern |-> PyNone,
     pattern_counts |-> <<>>,
     recommendations |-> <<>>]

\* patterns.py 342-343: the catalog score, 1 for a kind not in the catalog
get_score(pat_name) == PATTERN_SCORE(pat_name)

\* score_filtered keeping the events of Score 1 (Score >= 1)
score_filtered_keep_all(pats) ==
    [a \in 1..Len(pats.rows) |->
        pats.rows[a] @@ [Score |-> get_score(pats.rows[a].Pattern)]]

\* patterns.py 345-347: the events with their Score, those of Score 1 removed
score_filtered(pats) ==
    SelectSeq([a \in 1..Len(pats.rows) |->
                  pats.rows[a] @@ [Score |-> get_score(pats.rows[a].Pattern)]],
              LAMBDA e : e.Score > 1)

\* The value of column col of df at timestamp date after the left merge of
\* line 356: nan when no row of df has that timestamp.  (Timestamps of df
\* are distinct.)
MergedValue(f, date, col) ==
    LET ks == {k \in 1..Len(f.rows) : f.rows[k].Date = date}
    IN  IF ks = {} THEN NaN
        ELSE LET v == f.rows[CHOOSE k \in ks : TRUE][col]
             IN  IF col = "Close" THEN Num(v) ELSE v

\* patterns.py 352-356: the event joined with Close and, where df has them,
\* VWAP and MA50 of its bar
merged_row(f, e) ==
    e @@ [Close |-> MergedValue(f, e.Date, "Close")]
      @@ (IF "VWAP" \in f.cols THEN [VWAP |-> MergedValue(f, e.Date, "VWAP")] ELSE <<>>)
      @@ (IF "MA50" \in f.cols THEN [MA50 |-> MergedValue(f, e.Date, "MA50")] ELSE <<>>)

\* patterns.py 362-377: keep_mask for one merged row
keep(row) ==
    IF row.Signal = "Bullish"
    THEN LET vwap == IF "VWAP" \in DOMAIN row THEN row.VWAP ELSE Num(-1)
         IN  EqV(vwap, Num(-1)) \/ GtV(row.Close, vwap)
    ELSE IF row.Signal = "Bearish"
    THEN LET ma50 == IF "MA50" \in DOMAIN row THEN row.MA50 ELSE Num(-1)
         IN  EqV(ma50, Num(-1)) \/ LtV(row.Close, ma50)
    ELSE TRUE

\* patterns.py 345-379: filtered_patterns
filtered_patterns(pats, f) ==
    LET scored == score_filtered(pats)
    IN  IF scored = <<>> THEN <<>>
        ELSE SelectSeq([a \in 1..Len(scored) |-> merged_row(f, scored[a])], keep)

RecentWindow == 20

\* tail without a limit: every surviving event is scored
tail_whole(seq, n) == seq

\* patterns.py 388: filtered_patterns.tail(20)
tail(seq, n) == SubSeq(seq, Max2(1, Len(seq) - n + 1), Len(seq))

CountSignal(seq, signal) == Cardinality({a \in 1..Len(seq) : seq[a].Signal = signal})

\* patterns.py 394: df["Date"].max()
latest_data_date(f) ==
    CHOOSE d \in {f.rows[k].Date : k \in 1..Len(f.rows)} :
        \A k \in 1..Len(f.rows) : f.rows[k].Date <= d

\* patterns.py 396-412: one event's contribution to sentiment_score
contribution(row, latest_date) ==
    LET recency_mult == IF row.Date = latest_date THEN 2 ELSE 1
    IN  IF row.Signal = "Bullish" THEN row.Score * recency_mult
        ELSE IF row.Signal = "Bearish" THEN -(row.Score * recency_mult)
        ELSE 0

pattern_score(recent, f) ==
    SumRange([a \in 1..Len(recent) |-> contribution(recent[a], latest_data_date(f))],
             1, Len(recent))

LongTrendBars == 50

ShortTrendBars == 20

\* The sum of the last w values of Close
SumLastClose(f, w) ==
    SumRange([k \in 1..Len(f.rows) |-> f.rows[k].Close], Len(f.rows) - w + 1, Len(f.rows))

\* patterns.py 416-437: trend and trend_score_mod
trend_of(f) ==
    LET n == Len(f.rows)
        latest_close == f.rows[n].Close
    IN  IF n >= LongTrendBars
        THEN IF latest_close * LongTrendBars > SumLastClose(f, LongTrendBars)
             THEN [trend |-> "Bullish", trend_score_mod |-> 3]
             ELSE [trend |-> "Bearish", trend_score_mod |-> -3]
        ELSE IF n >= ShortTrendBars
        THEN IF latest_close * ShortTrendBars > SumLastClose(f, ShortTrendBars)
             THEN [trend |-> "Bullish (Short-term)", trend_score_mod |-> 2]
             ELSE [trend |-> "Bearish (Short-term)", trend_score_mod |-> -2]
        ELSE [trend |-> "Neutral", trend_score_mod |-> 0]

\* patterns.py 443-444
is_red_candle(f) == f.rows[Len(f.rows)].Close < f.rows[Len(f.rows)].Open

is_green_candle(f) == f.rows[Len(f.rows)].Close > f.rows[Len(f.rows)].Open

\* patterns.py 447-454
macd_signal_of(f) ==
    IF "MACD" \in f.cols /\ "Signal_Line" \in f.cols
    THEN IF GtV(f.rows[Len(f.rows)].MACD, f.rows[Len(f.rows)].Signal_Line)
         THEN "Bullish" ELSE "Bearish"
    ELSE "Neutral"

\* patterns.py 456-466
rsi_signal_of(f) ==
    IF "RSI" \in f.cols
    THEN LET rsi_val == f.rows[Len(f.rows)].RSI
         IN  IF GtV(rsi_val, Num(70)) THEN "Overbought (Risk of Pullback)"
             ELSE IF LtV(rsi_val, Num(30)) THEN "Oversold (Bounce Potential)"
             ELSE IF GtV(rsi_val, Num(50)) THEN "Bullish Zone"
             ELSE "Bearish Zone"
    ELSE "Neutral"

\* The classification with the red-candle veto left out of the >= 8 branch
classify_no_veto(sentiment_score, red, green) ==
    IF sentiment_score >= 8 THEN "Strongly Bullish"
    ELSE IF sentiment_score >= 3
    THEN IF red THEN "Bullish (Weak Follow-through)" ELSE "Bullish"
    ELSE IF sentiment_score <= -8
    THEN IF green THEN "Bearish (with Short-term Bounce)" ELSE "Strongly Bearish"
    ELSE IF sentiment_score <= -3 THEN "Bearish"
    ELSE "Mixed/Neutral"

\* classify with the bullish veto of the 3..7 band mirrored on the bearish side
classify_bearish_weak(sentiment_score, red, green) ==
    IF sentiment_score >= 8
    THEN IF red THEN "Bullish (but Short-term Pullback)" ELSE "Strongly Bullish"
    ELSE IF sentiment_score >= 3
    THEN IF red THEN "Bullish (Weak Follow-through)" ELSE "Bullish"
    ELSE IF sentiment_score <= -8
    THEN IF green THEN "Bearish (with Short-term Bounce)" ELSE "Strongly Bearish"
    ELSE IF sentiment_score <= -3
    THEN IF green THEN "Bearish (Weak Follow-through)" ELSE "Bearish"
    ELSE "Mixed/Neutral"

\* patterns.py 469-490: the final sentiment classification
classify(sentiment_score, red, green) ==
    IF sentiment_score >= 8
    THEN IF red THEN "Bullish (but Short-term Pullback)" ELSE "Strongly Bullish"
    ELSE IF sentiment_score >= 3
    THEN IF red THEN "Bullish (Weak Follow-through)" ELSE "Bullish"
    ELSE IF sentiment_score <= -8
    THEN IF green THEN "Bearish (with Short-term Bounce)" ELSE "Strongly Bearish"
    ELSE IF sentiment_score <= -3 THEN "Bearish"
    ELSE "Mixed/Neutral"

\* patterns.py 390-440: sentiment_score after the trend modifier
sentiment_score_of(pats, f) ==
    pattern_score(tail(filtered_patterns(pats, f), RecentWindow), f)
        + trend_of(f).trend_score_mod

\* patterns.py 504-532: the action of the recommendation, as the base text
\* followed by the momentum warning, if any
action_of(signal, f) ==
    LET n == Len(f.rows)
        latest_close == Num(f.rows[n].Close)
        vwap == IF "VWAP" \in f.cols THEN f.rows[n].VWAP ELSE latest_close
        ma50 == IF "MA50" \in f.cols THEN f.rows[n].MA50 ELSE latest_close
        is_uptrend == GtV(latest_close, vwap) /\ GtV(latest_close, ma50)
        is_downtrend == LtV(latest_close, vwap) /\ LtV(latest_close, ma50)
        base ==
            IF signal = "Bullish"
            THEN IF is_uptrend THEN "Strong Buy Signal (Trend Aligned)"
                 ELSE IF is_downtrend THEN "Contratrend Buy Signal (High Risk)"
                 ELSE "Tactical Buy (Mixed Trend)"
            ELSE IF signal = "Bearish"
            THEN IF is_downtrend THEN "Strong Sell Signal (Trend Aligned)"
                 ELSE IF is_uptrend THEN "Contratrend Sell Signal (High Risk)"
                 ELSE "Tactical Sell (Mixed Trend)"
            ELSE "Watch for confirmation"
    IN  <<base>>
          \o (IF signal = "Bullish" /\ macd_signal_of(f) = "Bearish"
              THEN <<"Momentum Contradiction: Negative MACD">> ELSE <<>>)
          \o (IF signal = "Bearish" /\ macd_signal_of(f) = "Bullish"
              THEN <<"Momentum Contradiction: Positive MACD">> ELSE <<>>)

\* patterns.py 498-543: the recommendation for latest_pattern
recommendation_of(latest_pattern, pats, f) ==
    LET accuracy_stats == calculate_pattern_accuracy(f, pats)
        pattern_name == latest_pattern.Pattern
    IN  [pattern |-> pattern_name,
         action |-> action_of(latest_pattern.Signal, f),
         in_catalog |-> pattern_name \in PatternKinds,
         historical_accuracy |->
             IF pattern_name \in DOMAIN accuracy_stats
             THEN accuracy_stats[pattern_name]
             ELSE [insufficient |-> "N/A - Insufficient History"]]

\* patterns.py 545: value_counts of the recent patterns
pattern_counts_of(recent) ==
    [p_name \in {recent[a].Pattern : a \in 1..Len(recent)} |->
        Cardinality({a \in 1..Len(recent) : recent[a].Pattern = p_name})]

\* latest_of taking the oldest of the recent events
latest_of_first(recent) == IF recent # <<>> THEN recent[1] ELSE PyNone

\* patterns.py 495: recent_patterns.iloc[-1], None when there is none
latest_of(recent) == IF recent # <<>> THEN recent[Len(recent)] ELSE PyNone

\* patterns.py 323-563
get_pattern_insights(pats, f) ==
    IF pats.rows = <<>> THEN EmptyInsight
    ELSE LET filtered == filtered_patterns(pats, f)
             recent_patterns == tail(filtered, RecentWindow)
             sentiment ==
                 classify(sentiment_score_of(pats, f), is_red_candle(f), is_green_candle(f))
             latest_pattern == latest_of(recent_patterns)
         IN  [summary |-> <<sentiment, trend_of(f).trend, macd_signal_of(f), rsi_signal_of(f)>>,
              sentiment |-> sentiment,
              bullish_count |-> CountSignal(filtered, "Bullish"),
              bearish_count |-> CountSignal(filtered, "Bearish"),
              neutral_count |-> CountSignal(filtered, "Neutral"),
              latest_pattern |-> latest_pattern,
              pattern_counts |-> pattern_counts_of(recent_patterns),
              recommendations |->
                  IF recent_patterns # <<>>
                  THEN <<recommendation_of(latest_pattern, pats, f)>> ELSE <<>>,
              all_patterns |-> recent_patterns]

(***************************************************************************)
(* The inputs get_pattern_insights is run on.  The series has n bars that  *)
(* all are (open 10, high 25, low 0, close 10), except for the open and    *)
(* the close of the last bar.  It comes without indicator columns ("raw")  *)
(* or with VWAP and MA50 columns that are nan, below every close (5) or    *)
(* above every close (15) on every bar.  The events lie on the last bars   *)
(* of the series, at most one per bar and none on the first bar.           *)
(***************************************************************************)
MaxEvents == 2

InsightLengths == {3, ShortTrendBars, LongTrendBars}

ColumnConfigs == {"raw", "nan", "below", "above"}

IndicatorValue(cfg) ==
    CASE cfg = "nan" -> NaN
      [] cfg = "below" -> Num(5)
      [] cfg = "above" -> Num(15)

InsightSeries(n, last_open, last_close, cfg) ==
    LET bar(k) == Bar(k, IF k = n THEN last_open ELSE 10, 25, 0,
                      IF k = n THEN last_close ELSE 10, 100)
    IN  IF cfg = "raw"
        THEN Frame(OHLCV, [k \in 1..n |-> bar(k)])
        ELSE Frame(OHLCV \cup {"VWAP", "MA50"},
                   [k \in 1..n |->
                       bar(k) @@ [VWAP |-> IndicatorValue(cfg), MA50 |-> IndicatorValue(cfg)]])

\* What a bar may carry: no event, or an event of one of these kinds (one
\* per signal and catalog score, and a Bullish kind that is not in the
\* catalog).
SlotKinds ==
    {"none", "Doji", "Hammer", "Shooting Star", "Bullish Marubozu", "Bearish Marubozu",
     "Three White Soldiers"}

\* patterns.py 159-256: the Type and Signal the detector gives each kind
TypeOf(kind) ==
    CASE kind \in {"Morning Star", "Hammer", "Bullish Engulfing", "Three White Soldiers"}
            -> "Bullish Reversal"
      [] kind \in {"Evening Star", "Shooting Star", "Bearish Engulfing"} -> "Bearish Reversal"
      [] kind = "Doji" -> "Indecision"
      [] kind = "Bullish Marubozu" -> "Strong Bullish"
      [] kind = "Bearish Marubozu" -> "Strong Bearish"

SignalOf(kind) ==
    CASE kind \in {"Morning Star", "Hammer", "Bullish Engulfing", "Bullish Marubozu",
                   "Three White Soldiers"} -> "Bullish"
      [] kind \in {"Evening Star", "Shooting Star", "Bearish Engulfing", "Bearish Marubozu"} -> "Bearish"
      [] kind = "Doji" -> "Neutral"

\* The frame of the events that kinds puts on the last Len(kinds) bars of f,
\* in Date order: slot s is the bar Len(f.rows) - Len(kinds) + s.
EventsOn(f, kinds) ==
    LET first == Len(f.rows) - Len(kinds)
        slots == SelectSeq([s \in 1..Len(kinds) |-> s], LAMBDA s : kinds[s] # "none")
    IN  Frame(EventCols,
              [a \in 1..Len(slots) |->
                  Event(f.rows[first + slots[a]], kinds[slots[a]],
                        TypeOf(kinds[slots[a]]), SignalOf(kinds[slots[a]]))])

InitInsight ==
    /\ pc = "insight_call"
    /\ \E n \in InsightLengths, cfg \in ColumnConfigs :
         \E last_open \in {8, 10, 12}, last_close \in {9, 10, 11} :
            \E kinds \in [1..Min2(MaxEvents, n - 1) -> SlotKinds] :
               /\ df = InsightSeries(n, last_open, last_close, cfg)
               /\ patterns_df = EventsOn(df, kinds)
    /\ metadata = PyNone
    /\ df_sorted = EmptyFrame
    /\ i = 0
    /\ patterns = <<>>
    /\ seen = {}
    /\ heap = NoObjects
    /\ file = NoFile
    /\ history = <<>>
    /\ result = NoResult

\* patterns.py 323-563: the call; the dashboard shows the sentiment
get_pattern_insights_call ==
    /\ pc = "insight_call"
    /\ result' = get_pattern_insights(patterns_df, df)
    /\ seen' = seen \cup {result'.sentiment}
    /\ pc' = "done"
    /\ UNCHANGED <<arguments, history, detect_locals, heap>>

NextInsight == get_pattern_insights_call

SpecInsight == InitInsight /\ [][NextInsight]_vars

(***************************************************************************)
(* Claims about get_pattern_insights.                                      *)
(***************************************************************************)

\* C8: a sentiment score of at least 8 is labelled "Strongly Bullish" unless
\* the latest bar closed below its open, and then it is labelled "Bullish
\* (but Short-term Pullback)"; a score of exactly 8 is no exception.
C8_StronglyBullishVeto ==
    (pc = "done" /\ patterns_df.rows # <<>>
        /\ sentiment_score_of(patterns_df, df) >= 8) =>
        LET last == df.rows[Len(df.rows)]
        IN  /\ last.Close < last.Open
               => result.sentiment = "Bullish (but Short-term Pullback)"
            /\ last.Close >= last.Open
               => result.sentiment = "Strongly Bullish"

\* C8's case: the score is exactly 8, the latest candle is red, and the
\* label is the pullback label.
C8_Witness ==
    /\ pc = "done"
    /\ patterns_df.rows # <<>>
    /\ sentiment_score_of(patterns_df, df) = 8
    /\ df.rows[Len(df.rows)].Close < df.rows[Len(df.rows)].Open
    /\ result.sentiment = "Bullish (but Short-term Pullback)"

\* The value of column col of the series on the bar of event e, or nan
\* where the series has no such column
IndicatorAt(e, col) ==
    IF col \in df.cols THEN df.rows[IdxOfDate(df.rows, e.Date) + 1][col] ELSE NaN

\* The events of the given signal that the score filter keeps and that the
\* gating must keep: the indicator is absent or undefined on the event's
\* bar, or defined with the close on the right side of it.
MustSurvive(signal) ==
    {a \in 1..Len(patterns_df.rows) :
        LET e == patterns_df.rows[a]
            close == Num(df.rows[IdxOfDate(df.rows, e.Date) + 1].Close)
        IN  /\ e.Signal = signal
            /\ PATTERN_SCORE(e.Pattern) > 1
            /\ CASE signal = "Bullish" ->
                        \/ ~IsFinite(IndicatorAt(e, "VWAP"))
                        \/ GtV(close, IndicatorAt(e, "VWAP"))
                 [] signal = "Bearish" ->
                        \/ ~IsFinite(IndicatorAt(e, "MA50"))
                        \/ LtV(close, IndicatorAt(e, "MA50"))}

\* C17: gating is applied to an event only where its indicator is defined
\* on the event's bar: a Bearish event on a bar without a defined MA50 and a
\* Bullish event on a bar without a defined VWAP are kept, and an event is
\* discarded only when the indicator is defined and the close is on the
\* wrong side of it.
C17_GatingOnlyWhereDefined ==
    (pc = "done" /\ patterns_df.rows # <<>>) =>
        /\ result.bullish_count = Cardinality(MustSurvive("Bullish"))
        /\ result.bearish_count = Cardinality(MustSurvive("Bearish"))

\* The events given, without those whose kind has catalog score 1
StrongEvents ==
    Frame(patterns_df.cols,
          SelectSeq(patterns_df.rows, LAMBDA e : PATTERN_SCORE(e.Pattern) > 1))

\* C18: the events whose kind has catalog score 1 (Doji, and a kind that is
\* not in the catalog) are discarded before aggregation: they are in no
\* count, not in the scored events or pattern_counts, never the
\* latest_pattern or the subject of a recommendation, and the result is the
\* one the other events alone give (with none left: zero counts, no latest
\* pattern, and the sentiment of the trend modifier alone).
C18_WeakEventsDiscarded ==
    (pc = "done" /\ patterns_df.rows # <<>>) =>
        /\ \A a \in 1..Len(result.all_patterns) :
              PATTERN_SCORE(result.all_patterns[a].Pattern) > 1
        /\ \A p_name \in DOMAIN result.pattern_counts : PATTERN_SCORE(p_name) > 1
        /\ result.latest_pattern # PyNone
              => PATTERN_SCORE(result.latest_pattern.Pattern) > 1
        /\ \A r \in 1..Len(result.recommendations) :
              PATTERN_SCORE(result.recommendations[r].pattern) > 1
        /\ result.neutral_count = 0
        /\ IF StrongEvents.rows # <<>>
           THEN result = get_pattern_insights(StrongEvents, df)
           ELSE /\ result.bullish_count = 0 /\ result.bearish_count = 0
                /\ result.latest_pattern = PyNone
                /\ result.recommendations = <<>>
                /\ result.sentiment =
                      classify(trend_of(df).trend_score_mod,
                               is_red_candle(df), is_green_candle(df))

\* C18's case: a Doji on the latest bar after a Hammer: the Hammer is the
\* latest pattern and the only event counted.
C18_Witness ==
    /\ pc = "done"
    /\ Len(patterns_df.rows) = 2
    /\ patterns_df.rows[1].Pattern = "Hammer"
    /\ patterns_df.rows[2].Pattern = "Doji"
    /\ result.latest_pattern # PyNone
    /\ result.latest_pattern.Pattern = "Hammer"
    /\ result.bullish_count = 1
    /\ result.neutral_count = 0

(***************************************************************************)
(* get_pattern_insights on long event sequences: an event on each of the   *)
(* last m bars of the series, for m around the scoring window of 20.  The  *)
(* kinds follow a scheme: Hammer on every bar; Hammer and Shooting Star in *)
(* turns; a Shooting Star or a Bearish Marubozu on the oldest bar and      *)
(* Hammer after it; every third a Doji among Shooting Stars.               *)
(***************************************************************************)
ScoreExtra == 2

Schemes == {"hammers", "turns", "oldest star", "oldest marubozu", "dojis"}

SchemeKind(scheme, slot) ==
    CASE scheme = "hammers" -> "Hammer"
      [] scheme = "turns" -> IF slot % 2 = 1 THEN "Hammer" ELSE "Shooting Star"
      [] scheme = "oldest star" -> IF slot = 1 THEN "Shooting Star" ELSE "Hammer"
      [] scheme = "oldest marubozu" -> IF slot = 1 THEN "Bearish Marubozu" ELSE "Hammer"
      [] scheme = "dojis" -> IF slot % 3 = 0 THEN "Doji" ELSE "Shooting Star"

InitScore ==
    /\ pc = "insight_call"
    /\ \E m \in (RecentWindow - 1)..(RecentWindow + ScoreExtra),
          scheme \in Schemes, cfg \in ColumnConfigs :
         \E last_open \in {8, 10, 12}, last_close \in {9, 10, 11} :
            \E n \in {m + 1, LongTrendBars} :
               /\ df = InsightSeries(n, last_open, last_close, cfg)
               /\ patterns_df = EventsOn(df, [slot \in 1..m |-> SchemeKind(scheme, slot)])
    /\ metadata = PyNone
    /\ df_sorted = EmptyFrame
    /\ i = 0
    /\ patterns = <<>>
    /\ seen = {}
    /\ heap = NoObjects
    /\ file = NoFile
    /\ history = <<>>
    /\ result = NoResult

NextScore == get_pattern_insights_call

SpecScore == InitScore /\ [][NextScore]_vars

\* The latest timestamp of the series
LatestDate == CHOOSE d \in {df.rows[k].Date : k \in 1..Len(df.rows)} :
                  \A k \in 1..Len(df.rows) : df.rows[k].Date <= d

\* catalog_score x recency_multiplier x direction_sign, summed over events
RECURSIVE WeightedSum(_)
WeightedSum(events) ==
    IF events = <<>> THEN 0
    ELSE LET e == Head(events)
             sign == IF e.Signal = "Bullish" THEN 1
                     ELSE IF e.Signal = "Bearish" THEN -1 ELSE 0
             recency == IF e.Date = LatestDate THEN 2 ELSE 1
         IN  PATTERN_SCORE(e.Pattern) * recency * sign + WeightedSum(Tail(events))

\* The events that survive the filters, and the 20 most recent of them
Survivors == filtered_patterns(patterns_df, df)

Recent20 ==
    IF Len(Survivors) <= 20 THEN Survivors
    ELSE SubSeq(Survivors, Len(Survivors) - 19, Len(Survivors))

\* C19: the pattern part of the sentiment score is the sum, over the 20 most
\* recent surviving events only, of catalog score x recency multiplier x
\* direction sign (+1 Bullish, -1 Bearish, 0 Neutral), the multiplier being
\* 2 exactly on the latest timestamp of the series; older survivors add
\* nothing.
C19_PatternScore ==
    (pc = "done" /\ patterns_df.rows # <<>>) =>
        /\ result.all_patterns = Recent20
        /\ sentiment_score_of(patterns_df, df)
              = WeightedSum(Recent20) + trend_of(df).trend_score_mod
        /\ result.sentiment =
              classify(WeightedSum(Recent20) + trend_of(df).trend_score_mod,
                       is_red_candle(df), is_green_candle(df))

\* C19's case: more than 20 events survive, the oldest of them would change
\* the sum, and the latest is on the latest bar.
C19_Witness ==
    /\ pc = "done"
    /\ Len(Survivors) > 20
    /\ WeightedSum(Survivors) # WeightedSum(Recent20)
    /\ Survivors[Len(Survivors)].Date = LatestDate
    /\ Len(result.all_patterns) = 20

\* The fields of an insight that the dashboard reads
InsightFields ==
    {"summary", "sentiment", "bullish_count", "bearish_count", "neutral_count",
     "latest_pattern", "pattern_counts", "recommendations"}

\* C23: recommendations has at most one entry, and that entry is derived
\* from the single latest event (greatest timestamp) among those that
\* survive the score and trend filters; when no event survives,
\* recommendations is empty and latest_pattern is None, and the call still
\* returns an insight with all its fields.
C23_SingleRecommendation ==
    pc = "done" =>
        /\ Len(result.recommendations) <= 1
        /\ InsightFields \subseteq DOMAIN result
        /\ IF Survivors = <<>>
           THEN /\ result.recommendations = <<>>
                /\ result.latest_pattern = PyNone
           ELSE LET newest == CHOOSE a \in 1..Len(Survivors) :
                                 \A b \in 1..Len(Survivors) :
                                    Survivors[b].Date <= Survivors[a].Date
                IN  /\ result.latest_pattern = Survivors[newest]
                    /\ Len(result.recommendations) = 1
                    /\ result.recommendations[1].pattern = Survivors[newest].Pattern
                    /\ result.recommendations[1].action
                          = action_of(Survivors[newest].Signal, df)

\* C23's case: two events of different kinds survive and the recommendation
\* is about the later one.
C23_Witness ==
    /\ pc = "done"
    /\ Len(Survivors) = 2
    /\ Survivors[1].Pattern # Survivors[2].Pattern
    /\ Survivors[1].Signal # Survivors[2].Signal
    /\ Len(result.recommendations) = 1
    /\ result.recommendations[1].pattern = Survivors[2].Pattern

(***************************************************************************)
(* The dashboard over several runs.  Every interaction runs the script     *)
(* again, on the series and the events of that run; seen collects the      *)
(* sentiment labels of all the runs.  The runs are on 3-bar series         *)
(* without indicator columns, whose latest bar is red, flat or green, with *)
(* events on the last two bars.                                            *)
(***************************************************************************)
LabelKinds == {"none", "Doji", "Hammer", "Shooting Star"}

IsLabelInput(f, pats) ==
    \E last_close \in {9, 10, 11} :
       \E kinds \in [1..2 -> LabelKinds] :
          /\ f = InsightSeries(3, 10, last_close, "raw")
          /\ pats = EventsOn(f, kinds)

InitLabels ==
    /\ pc = "insight_call"
    /\ IsLabelInput(df, patterns_df)
    /\ metadata = PyNone
    /\ df_sorted = EmptyFrame
    /\ i = 0
    /\ patterns = <<>>
    /\ seen = {}
    /\ heap = NoObjects
    /\ file = NoFile
    /\ history = <<>>
    /\ result = NoResult

\* app.py 19-28, 89-113: the next run of the script, on new data
rerun ==
    /\ pc = "done"
    /\ IsLabelInput(df', patterns_df')
    /\ result' = NoResult
    /\ pc' = "insight_call"
    /\ UNCHANGED <<metadata, file, history, detect_locals, seen, heap>>

NextLabels == rerun \/ get_pattern_insights_call

SpecLabels == InitLabels /\ [][NextLabels]_vars

\* patterns.py 328-338, 469-490: the sentiment labels of the code
SentimentLabels ==
    {"Neutral", "Mixed/Neutral",
     "Strongly Bullish", "Bullish (but Short-term Pullback)",
     "Bullish", "Bullish (Weak Follow-through)",
     "Strongly Bearish", "Bearish (with Short-term Bounce)",
     "Bearish"}

\* C9 as stated: over all inputs the sentiment field takes values from a set
\* of exactly 7 distinct labels, so the runs never show more than 7.
C9_SevenLabels == Cardinality(seen) <= 7

\* C9 as amended: over all inputs the sentiment field takes values from a
\* set of exactly 9 distinct labels: "Neutral" for no events, "Mixed/Neutral",
\* and the strong, vetoed-strong and plain labels of both sides together with
\* "Bullish (Weak Follow-through)", which has no bearish counterpart.
C9_NineLabels ==
    /\ seen \subseteq SentimentLabels
    /\ Cardinality(SentimentLabels) = 9
    /\ pc = "done" => result.sentiment \in seen

\* C9's case: the runs have shown every one of the nine labels.
C9_Witness == pc = "done" /\ seen = SentimentLabels

\* The label on the other side of a label: strong for strong, vetoed for
\* vetoed, plain for plain, and a qualified bearish label for the qualified
\* "Bullish (Weak Follow-through)"
Counterpart(label) ==
    CASE label = "Strongly Bullish" -> "Strongly Bearish"
      [] label = "Strongly Bearish" -> "Strongly Bullish"
      [] label = "Bullish (but Short-term Pullback)" -> "Bearish (with Short-term Bounce)"
      [] label = "Bearish (with Short-term Bounce)" -> "Bullish (but Short-term Pullback)"
      [] label = "Bullish" -> "Bearish"
      [] label = "Bearish" -> "Bullish"
      [] label = "Bullish (Weak Follow-through)" -> "Bearish (Weak Follow-through)"
      [] label = "Bearish (Weak Follow-through)" -> "Bullish (Weak Follow-through)"
      [] OTHER -> label

\* C21: the classification is mirror-symmetric: the label of a run with
\* score s and a latest candle of one colour is the counterpart of the label
\* that the classification gives to the score -s with the latest candle of
\* the opposite colour; so a score in (-8, -3] with a green latest candle
\* gets a qualified bearish label.
C21_MirrorSymmetric ==
    (pc = "done" /\ patterns_df.rows # <<>>) =>
        LET s == sentiment_score_of(patterns_df, df)
        IN  Counterpart(result.sentiment)
                = classify(-s, is_green_candle(df), is_red_candle(df))

(***************************************************************************)
(* indicators.py: add_indicators(df).  Positions k are 1-based here: the   *)
(* row at k is the code's index k - 1.  Averages and quotients are exact   *)
(* rationals; a rolling mean over w rows is nan until w rows without a nan *)
(* are in the window.                                                      *)
(***************************************************************************)
\* The column col of the rows as a sequence
Column(rows, col) == [k \in 1..Len(rows) |-> rows[k][col]]

\* rolling(w, min_periods=1).mean(): defined from the first row on
RollingMean_min_periods_1(vals, k, w) ==
    Fin(SumRange(vals, Max2(1, k - w + 1), k), Min2(k, w))

\* Series.rolling(w).mean() at k, of a column without nan
RollingMean(vals, k, w) ==
    IF k < w THEN NaN ELSE Fin(SumRange(vals, k - w + 1, k), w)

MA20Window == 20

MA50Window == 50

RSIWindow == 14

\* indicators.py 6, 28: Close.diff() at k >= 2 (nan at the first row)
delta(rows, k) == rows[k].Close - rows[k - 1].Close

\* indicators.py 7-8: gain and loss at k >= 2
gain(rows, k) == Max2(delta(rows, k), 0)

loss(rows, k) == -Min2(delta(rows, k), 0)

\* indicators.py 10-11: the sums behind avg_gain and avg_loss at k; the
\* window k-13..k must not hold the nan of the first row
HasRSIWindow(k) == k - RSIWindow + 1 >= 2

SumGain(rows, k) ==
    SumRange([j \in 1..Len(rows) |-> IF j >= 2 THEN gain(rows, j) ELSE 0],
             k - RSIWindow + 1, k)

SumLoss(rows, k) ==
    SumRange([j \in 1..Len(rows) |-> IF j >= 2 THEN loss(rows, j) ELSE 0],
             k - RSIWindow + 1, k)

\* RSI as line 15 leaves it, without the assignment of line 18
RSI_line15_only(rows, k) ==
    IF ~HasRSIWindow(k) THEN NaN
    ELSE LET G == SumGain(rows, k)
             L == SumLoss(rows, k)
         IN  IF L = 0
             THEN Fin(100 * G, RSIWindow + G)
             ELSE Fin(100 * G, L + G)

\* indicators.py 14-18: rs = avg_gain / avg_loss.replace(0, 1), with
\* avg_gain = G/14 and avg_loss = L/14; 100 - 100/(1 + rs) is 100*G/(L + G)
\* for L # 0 and 100*G/(14 + G) for L = 0; line 18 then sets the rows with
\* avg_loss == 0 to 100.
RSI(rows, k) ==
    IF ~HasRSIWindow(k) THEN NaN
    ELSE LET G == SumGain(rows, k)
             L == SumLoss(rows, k)
             line15 == IF L = 0
                       THEN Fin(100 * G, RSIWindow + G)
                       ELSE Fin(100 * G, L + G)
         IN  IF L = 0 THEN Num(100) ELSE line15

\* direction with an unchanged Close counted as a rise
direction_up_on_equal(rows, k) ==
    IF k < 2 THEN 0
    ELSE IF delta(rows, k) >= 0 THEN 1
    ELSE -1

\* indicators.py 29: direction at k (0 for the nan of the first row)
direction(rows, k) ==
    IF k < 2 THEN 0
    ELSE IF delta(rows, k) > 0 THEN 1
    ELSE IF delta(rows, k) < 0 THEN -1
    ELSE 0

\* OBV added onto the OBV column that the frame already has
OBV_onto_previous(rows, k) ==
    Num((IF "OBV" \in DOMAIN rows[k] THEN rows[k].OBV.num ELSE 0)
        + SumRange([j \in 1..Len(rows) |->
                       (IF j < 2 THEN 0
                        ELSE IF rows[j].Close > rows[j - 1].Close THEN 1
                        ELSE IF rows[j].Close < rows[j - 1].Close THEN -1
                        ELSE 0) * rows[j].Volume], 1, k))

\* indicators.py 30
OBV(rows, k) ==
    Num(SumRange([j \in 1..Len(rows) |-> direction(rows, j) * rows[j].Volume], 1, k))

\* indicators.py 35-36: cumsum(typical_price * Volume) / cumsum(Volume),
\* with typical_price = (High + Low + Close) / 3; a zero cumulative volume
\* divides by zero
VWAP(rows, k) ==
    LET tpv == SumRange([j \in 1..Len(rows) |->
                   (rows[j].High + rows[j].Low + rows[j].Close) * rows[j].Volume], 1, k)
        vol == SumRange(Column(rows, "Volume"), 1, k)
    IN  IF vol > 0 THEN Fin(tpv, 3 * vol)
        ELSE IF vol < 0 THEN Fin(-tpv, -3 * vol)
        ELSE Quot(tpv, 0)

\* indicators.py 40: Close.pct_change().abs() > 0.005 at k, on the binary64
\* values of the code: pct_change is Close / Close.shift(1) - 1, nan on the
\* first row, and its absolute value is above 0.005 when the change is
\* above 0.005 or below -0.005 (see AboveHalfPct and BelowMinusHalfPct: a
\* fall of exactly 0.5% gives 0.0050000000000000044).
PriceMoved(rows, k) ==
    /\ k >= 2
    /\ LET pct_change == Quot(delta(rows, k), rows[k - 1].Close)
           signed == IF pct_change.kind = "finite" /\ pct_change.den < 0
                     THEN Fin(-pct_change.num, -pct_change.den) ELSE pct_change
       IN  AboveHalfPct(signed) \/ BelowMinusHalfPct(signed)

\* indicators.py 41
Volume_Breakout(rows, k) ==
    /\ GtV(Num(rows[k].Volume),
           LET m == RollingMean(Column(rows, "Volume"), k, MA20Window)
           IN  IF IsFinite(m) THEN Fin(3 * m.num, m.den) ELSE m)
    /\ PriceMoved(rows, k)

\* indicators.py 46, 57-59
Trend_Signal(rows, k) ==
    LET vol_up == k >= 2 /\ rows[k].Volume - rows[k - 1].Volume > 0
    IN  IF k >= 2 /\ delta(rows, k) > 0 /\ vol_up THEN "Bullish Confirmation"
        ELSE IF k >= 2 /\ delta(rows, k) < 0 /\ vol_up THEN "Bearish Selling Pressure"
        ELSE "Neutral"

IndicatorCols ==
    {"MA20", "MA50", "RSI", "Volume_MA20", "OBV", "VWAP", "Volume_Breakout", "Trend_Signal"}

\* indicators.py 3-59: the frame after the column assignments: the columns
\* it had, with the derived columns set (again, where it had them)
with_indicators(f) ==
    LET rows == f.rows
        derived(k) ==
            [MA20 |-> RollingMean(Column(rows, "Close"), k, MA20Window),
             MA50 |-> RollingMean(Column(rows, "Close"), k, MA50Window),
             RSI |-> RSI(rows, k),
             Volume_MA20 |-> RollingMean(Column(rows, "Volume"), k, MA20Window),
             OBV |-> OBV(rows, k),
             VWAP |-> VWAP(rows, k),
             Volume_Breakout |-> Volume_Breakout(rows, k),
             Trend_Signal |-> Trend_Signal(rows, k)]
    IN  Frame(f.cols \cup IndicatorCols,
              [k \in 1..Len(rows) |-> derived(k) @@ rows[k]])

\* indicators.py 2-61: every df[...] = ... assigns into the object passed
\* in, and "return df" returns that same object
add_indicators(h, obj) ==
    [heap |-> [h EXCEPT ![obj] = with_indicators(h[obj])], ret |-> Ref(obj)]

(***************************************************************************)
(* The series add_indicators is run on: the dashboard keeps the loaded     *)
(* series in the session as the object "stock_data" and passes that object *)
(* (app.py 19-21, 89).  Close is flat, rising, falling or alternating      *)
(* around 100, rising after a dip on the second bar, stepping up and down  *)
(* with unchanged bars in between, or flat at 200 but for a rise or a fall *)
(* of exactly 0.5% on the 20th bar; High and Low lie                       *)
(* 5 above and below it, and Volume is zero, zero on the first two bars,   *)
(* constant, rising, or constant with a spike on the last bar.  The        *)
(* lengths lie around the windows of the indicators.                       *)
(***************************************************************************)
IndLengths ==
    {1, 2, RSIWindow, RSIWindow + 1, MA20Window - 1, MA20Window, MA50Window, MA50Window + 1}

CloseShapes ==
    {"flat", "rising", "falling", "alternating", "dip", "steps", "half up", "half down"}

VolumeShapes == {"zero", "leading zero", "constant", "rising", "spike"}

CloseAt(shape, k) ==
    CASE shape = "flat" -> 100
      [] shape = "rising" -> 100 + k
      [] shape = "falling" -> 100 - k
      [] shape = "alternating" -> 100 + 2 * (k % 2)
      [] shape = "dip" -> IF k = 2 THEN 95 ELSE 100 + k
      [] shape = "steps" -> IF k % 4 \in {1, 2} THEN 101 ELSE 100
      [] shape = "half up" -> IF k = MA20Window THEN 201 ELSE 200
      [] shape = "half down" -> IF k = MA20Window THEN 199 ELSE 200

VolumeAt(shape, k, n) ==
    CASE shape = "zero" -> 0
      [] shape = "leading zero" -> IF k <= 2 THEN 0 ELSE 100
      [] shape = "constant" -> 100
      [] shape = "rising" -> 100 + 10 * k
      [] shape = "spike" -> IF k = n THEN 1000 ELSE 100

IndSeries(n, cs, vs) ==
    Frame(OHLCV,
          [k \in 1..n |->
              Bar(k, CloseAt(cs, k), CloseAt(cs, k) + 5, CloseAt(cs, k) - 5,
                  CloseAt(cs, k), VolumeAt(vs, k, n))])

InitInd ==
    /\ pc = "indicators_call"
    /\ \E n \in IndLengths, cs \in CloseShapes, vs \in VolumeShapes :
          df = IndSeries(n, cs, vs)
    /\ heap = [obj \in {"stock_data"} |-> df]
    /\ file = NoFile
    /\ history = <<>>
    /\ metadata = PyNone
    /\ patterns_df = EmptyFrame
    /\ df_sorted = EmptyFrame
    /\ i = 0
    /\ patterns = <<>>
    /\ seen = {}
    /\ result = NoResult

\* app.py 89: df = add_indicators(df), on the object of the session; df
\* keeps what that object held when it was passed
add_indicators_call ==
    /\ pc = "indicators_call"
    /\ LET call == add_indicators(heap, "stock_data")
       IN  /\ heap' = call.heap
           /\ result' = call.ret
    /\ pc' = "done"
    /\ UNCHANGED <<arguments, history, detect_locals, seen>>

NextInd == add_indicators_call

SpecInd == InitInd /\ [][NextInd]_vars

\* C10: add_indicators never mutates the series it is passed: after the call
\* that object has exactly the columns and values it had before, and the
\* derived columns are only on a separately allocated object that is returned.
C10_InputNotMutated ==
    pc = "done" =>
        /\ heap["stock_data"] = df
        /\ result.obj # "stock_data"
        /\ IndicatorCols \subseteq heap[result.obj].cols

(***************************************************************************)
(* loader.py: load_stock_data(file).  A CSV file is its header (the raw    *)
(* column names, in order) and its lines (the cells, in that order).  A    *)
(* cell is the text of a number, or another text.                          *)
(***************************************************************************)
NumberCell(n) == [num |-> n]

TextCell(t) == [text |-> t]

\* loader.py 5
REQUIRED_COLUMNS == <<"Date", "Open", "High", "Low", "Close", "Volume">>

Returned(value) == [kind |-> "returned", value |-> value]

\* The spellings of the column names in the files of the model
HeaderSpellings ==
    [exact |-> [Date |-> "Date", Open |-> "Open", High |-> "High",
                Low |-> "Low", Close |-> "Close", Volume |-> "Volume"],
     lower |-> [Date |-> "date", Open |-> "open", High |-> "high",
                Low |-> "low", Close |-> "close", Volume |-> "volume"],
     padded |-> [Date |-> " DATE ", Open |-> " OPEN ", High |-> " HIGH ",
                 Low |-> " LOW ", Close |-> " CLOSE ", Volume |-> " VOLUME "]]

\* loader.py 99: c.strip().title(), on the spellings above
StripTitle(raw) ==
    CHOOSE c \in DOMAIN HeaderSpellings.exact :
        \E style \in DOMAIN HeaderSpellings : HeaderSpellings[style][c] = raw

\* loader.py 112: pd.to_numeric(errors='coerce') of one cell
to_numeric(cell) == IF "num" \in DOMAIN cell THEN cell.num ELSE NaN

\* loader.py 107: pd.to_datetime of a cell that holds a date
to_datetime(cell) == cell.num

\* loader.py 96-115: the frame read from the file, with the names
\* normalised, the numeric columns coerced and the rows sorted by Date
frame_of(f) ==
    LET columns == [p \in 1..Len(f.header) |-> StripTitle(f.header[p])]
        cols == {columns[p] : p \in 1..Len(columns)}
        pos(c) == CHOOSE p \in 1..Len(columns) : columns[p] = c
        row(k) == [c \in cols |->
                      IF c = "Date" THEN to_datetime(f.lines[k][pos(c)])
                      ELSE to_numeric(f.lines[k][pos(c)])]
    IN  Frame(cols, SortByDate([k \in 1..Len(f.lines) |-> row(k)]))

\* loader.py 95-120
load_stock_data(f) ==
    LET columns == {StripTitle(f.header[p]) : p \in 1..Len(f.header)}
        missing == SelectSeq(REQUIRED_COLUMNS, LAMBDA c : c \notin columns)
    IN  IF missing # <<>> THEN Raised("ValueError")
        ELSE IF frame_of(f).rows = <<>> THEN Raised("ValueError")
        ELSE Returned(<<frame_of(f), <<>>, <<>> >>)

\* The lines of the files of the model: none, one good line, or two lines
\* out of Date order whose first has a Close that is not a number.  A cell
\* is given per column name and laid out in the order of the header.
CellsOf(bar) == [c \in DOMAIN bar |-> NumberCell(bar[c])]

LineSets ==
    { <<>>,
      << CellsOf(Bar(1, 100, 110, 90, 105, 1000)) >>,
      << [CellsOf(Bar(2, 100, 110, 90, 105, 1000)) EXCEPT !.Close = TextCell("n/a")],
         CellsOf(Bar(1, 95, 100, 90, 100, 500)) >> }

CsvFile(style, present, lines) ==
    LET names == SelectSeq(REQUIRED_COLUMNS, LAMBDA c : c \in present)
    IN  [kind |-> "csv",
         header |-> [p \in 1..Len(names) |-> HeaderSpellings[style][names[p]]],
         lines |-> [k \in 1..Len(lines) |->
                       [p \in 1..Len(names) |-> lines[k][names[p]]]]]

\* loader.py 95-120: the call
load_stock_data_call ==
    /\ pc = "load_call"
    /\ result' = load_stock_data(file)
    /\ pc' = IF result'.kind = "raised" THEN "raised" ELSE "done"
    /\ UNCHANGED <<arguments, history, detect_locals, seen, heap>>

(***************************************************************************)
(* Inputs that lack a field: a CSV file with any subset of the required    *)
(* columns, and a series for the detector with one of its columns (or      *)
(* none) removed.                                                          *)
(***************************************************************************)
RejectBars == 2

\* The frame f without the column col
Without(f, col) ==
    Frame(f.cols \ {col},
          [k \in 1..Len(f.rows) |-> [c \in f.cols \ {col} |-> f.rows[k][c]]])

InitReject ==
    /\ \/ /\ pc = "load_call"
          /\ \E style \in DOMAIN HeaderSpellings,
                present \in SUBSET DOMAIN HeaderSpellings.exact,
                lines \in LineSets :
                file = CsvFile(style, present, lines)
          /\ df = EmptyFrame
       \/ /\ pc = "detect_call"
          /\ file = NoFile
          /\ \E n \in 1..RejectBars :
                \E shapes \in [1..n -> BarShapes], col \in OHLCV \cup {"none"} :
                   df = Without(SeriesOf(shapes, Ascending(n)), col)
    /\ df_sorted = EmptyFrame
    /\ i = 0
    /\ patterns = <<>>
    /\ metadata = PyNone
    /\ patterns_df = EmptyFrame
    /\ seen = {}
    /\ heap = NoObjects
    /\ history = <<>>
    /\ result = NoResult

NextReject == load_stock_data_call \/ NextDetect

SpecReject == InitReject /\ [][NextReject]_vars

\* C11: an input that lacks a required field is rejected with an error:
\* load_stock_data raises for a file lacking any of its six columns, and
\* detect_candlestick_patterns raises, and returns no (empty) frame of
\* events, for a series lacking any of Date/Open/High/Low/Close.
C11_MissingFieldRejected ==
    /\ (pc \in {"done", "raised"} /\ file # NoFile
           /\ \E c \in DOMAIN HeaderSpellings.exact :
                 c \notin {StripTitle(file.header[p]) : p \in 1..Len(file.header)})
       => pc = "raised"
    /\ (pc \in {"done", "raised"} /\ file = NoFile
           /\ ~(required_cols \subseteq df.cols))
       => pc = "raised"

(***************************************************************************)
(* Claims about the indicator columns.  After the call the columns are on  *)
(* the object "stock_data"; df holds the series as it was passed.          *)
(***************************************************************************)
\* The rows of the series after add_indicators has run
Augmented == heap["stock_data"].rows

\* No bar of the window k-13..k closed below the bar before it: the 14-bar
\* rolling average loss at k is zero.
NoLossInWindow(k) ==
    /\ k - RSIWindow >= 1
    /\ \A j \in (k - RSIWindow + 1)..k : df.rows[j].Close >= df.rows[j - 1].Close

\* C12: RSI is in [0, 100] wherever it is defined, it is exactly 100 wherever
\* the 14-bar average loss is zero (a flat window included), and it is never
\* the result of a division by zero.
C12_RSIRange ==
    pc = "done" =>
        \A k \in 1..Len(Augmented) :
            LET rsi == Augmented[k].RSI
            IN  /\ rsi.kind \in {"finite", "nan"}
                /\ rsi.kind = "finite" =>
                      /\ rsi.den > 0
                      /\ 0 <= rsi.num
                      /\ rsi.num <= 100 * rsi.den
                /\ NoLossInWindow(k) => rsi = Num(100)

\* C12's case: a bar whose last 14 changes of Close are all zero (flat
\* window, average gain and average loss both zero), with RSI 100.
C12_Witness ==
    /\ pc = "done"
    /\ \E k \in 1..Len(Augmented) :
          /\ NoLossInWindow(k)
          /\ \A j \in (k - RSIWindow + 1)..k : df.rows[j].Close = df.rows[j - 1].Close
          /\ Augmented[k].RSI = Num(100)

\* C13: OBV is 0 at the first bar; at every later bar it changes by +Volume
\* when Close rose, by -Volume when Close fell and by 0 when Close is
\* unchanged; so, volumes being non-negative, OBV does not decrease over a
\* stretch of bars on which Close does not decrease.
C13_OBVSteps ==
    pc = "done" =>
        /\ Len(Augmented) >= 1 => Augmented[1].OBV = Num(0)
        /\ \A k \in 2..Len(Augmented) :
              LET step == Augmented[k].OBV.num - Augmented[k - 1].OBV.num
                  now == df.rows[k].Close
                  before == df.rows[k - 1].Close
              IN  /\ Augmented[k].OBV.den = 1
                  /\ now > before => step = df.rows[k].Volume
                  /\ now < before => step = -df.rows[k].Volume
                  /\ now = before => step = 0
        /\ \A a, b \in 1..Len(Augmented) :
              (/\ a < b
               /\ \A j \in (a + 1)..b : df.rows[j].Close >= df.rows[j - 1].Close
               /\ \A j \in (a + 1)..b : df.rows[j].Volume >= 0)
              => Augmented[b].OBV.num >= Augmented[a].OBV.num

\* C13's case: a series with a rise, a fall and an unchanged bar, all with
\* volume, after the call.
C13_Witness ==
    /\ pc = "done"
    /\ \E u, d, e \in 2..Len(Augmented) :
          /\ df.rows[u].Close > df.rows[u - 1].Close /\ df.rows[u].Volume > 0
          /\ df.rows[d].Close < df.rows[d - 1].Close /\ df.rows[d].Volume > 0
          /\ df.rows[e].Close = df.rows[e - 1].Close /\ df.rows[e].Volume > 0
          /\ Augmented[u].OBV.num > Augmented[u - 1].OBV.num
          /\ Augmented[d].OBV.num < Augmented[d - 1].OBV.num
          /\ Augmented[e].OBV = Augmented[e - 1].OBV

\* The sum of the w values of column col of the passed series that end at k
RECURSIVE TrailingSum(_, _, _)
TrailingSum(col, k, w) ==
    IF w = 0 THEN 0 ELSE df.rows[k][col] + TrailingSum(col, k - 1, w - 1)

\* The value v is the mean of the w values of col that end at k
IsTrailingMean(v, col, k, w) ==
    /\ v.kind = "finite"
    /\ v.den > 0
    /\ v.num * w = TrailingSum(col, k, w) * v.den

\* C14: Volume_MA20 is undefined at the indices 0..18 and is the mean of the
\* trailing 20 values of Volume from index 19 on; MA20 and MA50 are undefined
\* below index 19 and 49 and are the trailing 20- and 50-bar means of Close
\* from there on.  (Index i is the row k = i + 1.)
C14_MovingAverages ==
    pc = "done" =>
        \A k \in 1..Len(Augmented) :
            /\ k < 20 => /\ Augmented[k].Volume_MA20 = NaN
                         /\ Augmented[k].MA20 = NaN
            /\ k >= 20 => /\ IsTrailingMean(Augmented[k].Volume_MA20, "Volume", k, 20)
                          /\ IsTrailingMean(Augmented[k].MA20, "Close", k, 20)
            /\ k < 50 => Augmented[k].MA50 = NaN
            /\ k >= 50 => IsTrailingMean(Augmented[k].MA50, "Close", k, 50)

\* C14's case: a series of more than 50 bars with changing Close and Volume,
\* whose averages are undefined at the indices 18 and 48 and defined from
\* the indices 19 and 49 on.
C14_Witness ==
    /\ pc = "done"
    /\ Len(Augmented) > 50
    /\ df.rows[1].Close # df.rows[2].Close
    /\ df.rows[1].Volume # df.rows[2].Volume
    /\ Augmented[19].Volume_MA20 = NaN
    /\ Augmented[20].Volume_MA20.kind = "finite"
    /\ Augmented[20].MA20.kind = "finite"
    /\ Augmented[49].MA50 = NaN
    /\ Augmented[50].MA50.kind = "finite"
    /\ Augmented[51].MA50 # Augmented[50].MA50

(***************************************************************************)
(* The trend modifier of get_pattern_insights.                             *)
(***************************************************************************)
\* What the call added to the pattern part of the score
ModifierAdded == sentiment_score_of(patterns_df, df) - WeightedSum(Recent20)

\* C20: the trend modifier is +3 / -3 against the 50-bar mean of Close with
\* 50 bars or more, +2 / -2 against the 20-bar mean with 20..49 bars, and 0
\* with fewer; it is +k only when the latest Close is strictly above the
\* mean and -k only when it is strictly below; a Close equal to the mean is
\* neither.
C20_TrendModifier ==
    (pc = "done" /\ patterns_df.rows # <<>>) =>
        LET n == Len(df.rows)
            w == IF n >= 50 THEN 50 ELSE 20
            k == IF n >= 50 THEN 3 ELSE 2
            latest == df.rows[n].Close
        IN  IF n < 20 THEN ModifierAdded = 0
            ELSE /\ ModifierAdded = k <=> latest * w > TrailingSum("Close", n, w)
                 /\ ModifierAdded = -k <=> latest * w < TrailingSum("Close", n, w)
                 /\ ModifierAdded \in {k, 0, -k}

(***************************************************************************)
(* calculate_pattern_accuracy on its own.  The series has AccBars bars     *)
(* that close at 200, except bars 4 to 6, which close between 198 and 202: *)
(* the 3-bar forward return of bars 1 to 3 is then below, at or above the  *)
(* thresholds of -0.5% and +0.5%.  Every bar may carry a Hammer (Bullish)  *)
(* or a Shooting Star (Bearish).                                           *)
(***************************************************************************)
AccBars == 6

AccCloses == 198..202

AccKinds == {"none", "Hammer", "Shooting Star"}

AccSeries(n, closes) ==
    Frame(OHLCV,
          [k \in 1..n |->
              LET c == IF k \in DOMAIN closes THEN closes[k] ELSE 200
              IN  Bar(k, c, c + 5, c - 5, c, 100)])

InitAccuracy ==
    /\ pc = "accuracy_call"
    /\ \E closes \in [4..6 -> AccCloses] :
          \E kinds \in [1..AccBars -> AccKinds] :
             /\ df = AccSeries(AccBars, closes)
             /\ patterns_df = EventsOn(df, kinds)
    /\ metadata = PyNone
    /\ df_sorted = EmptyFrame
    /\ i = 0
    /\ patterns = <<>>
    /\ seen = {}
    /\ heap = NoObjects
    /\ file = NoFile
    /\ history = <<>>
    /\ result = NoResult

\* patterns.py 275-321, called at patterns.py 493
calculate_pattern_accuracy_call ==
    /\ pc = "accuracy_call"
    /\ result' = Returned(calculate_pattern_accuracy(df, patterns_df))
    /\ pc' = "done"
    /\ UNCHANGED <<arguments, history, detect_locals, seen, heap>>

NextAccuracy == calculate_pattern_accuracy_call

SpecAccuracy == InitAccuracy /\ [][NextAccuracy]_vars

\* The events of kind p that lie at least three bars before the end of the
\* series (bar k is the bar of timestamp k)
KnownOutcome(p) ==
    {a \in 1..Len(patterns_df.rows) :
        /\ patterns_df.rows[a].Pattern = p
        /\ patterns_df.rows[a].Date + 3 <= Len(df.rows)}

\* The event's 3-bar forward return exceeds +0.5% (Bullish) or is below
\* -0.5% (Bearish), on the closes themselves
WinByReturn(a) ==
    LET e == patterns_df.rows[a]
        now == df.rows[e.Date].Close
        later == df.rows[e.Date + 3].Close
    IN  \/ e.Signal = "Bullish" /\ 1000 * (later - now) > 5 * now
        \/ e.Signal = "Bearish" /\ 1000 * (later - now) < -5 * now

\* C22: calculate_pattern_accuracy reports a win rate for a pattern kind only
\* when at least 3 of its events have a known 3-bar-forward outcome, events
\* on the last three bars never being counted; the rate is wins/total, a win
\* being a Bullish event whose forward return exceeds +0.5% or a Bearish
\* event whose forward return is below -0.5%; with fewer than 3 countable
\* events the kind is reported as "Insufficient history"; the percentage is
\* between 0 and 100.
C22_WinRate ==
    pc = "done" =>
        \A p \in {patterns_df.rows[a].Pattern : a \in 1..Len(patterns_df.rows)} :
            LET total == Cardinality(KnownOutcome(p))
                wins == Cardinality({a \in KnownOutcome(p) : WinByReturn(a)})
                entry == result.value[p]
            IN  IF total >= 3
                THEN /\ DOMAIN entry = {"win_rate", "total"}
                     /\ entry.total = total
                     /\ entry.win_rate = (wins * 100) \div total
                     /\ entry.win_rate \in 0..100
                ELSE entry = [insufficient |-> "Insufficient history"]

\* The value is what a float division by zero gives: an inf, or the nan of
\* 0/0
DividedByZero(v) == v.kind = "inf" \/ v = ZeroByZero

\* The sums that VWAP is the quotient of, up to position k, on the series
\* passed in: 3 x cumulative(typical price x volume), and cumulative volume
CumPriceVolume(k) ==
    SumRange([j \in 1..Len(df.rows) |->
                 (df.rows[j].High + df.rows[j].Low + df.rows[j].Close) * df.rows[j].Volume],
             1, k)

CumVolume(k) == SumRange([j \in 1..Len(df.rows) |-> df.rows[j].Volume], 1, k)

\* C25: the zero denominator of VWAP is guarded: at every index of every
\* series, also where the cumulative volume up to that index is 0,
\* add_indicators yields a finite VWAP or the marker of an undefined value
\* and never the result of a division by zero; where the cumulative volume
\* is not zero, VWAP is cumulative (typical price x volume) divided by
\* cumulative volume from the start of the series.
C25_VWAPGuarded ==
    pc = "done" =>
        \A k \in 1..Len(Augmented) :
            /\ IsFinite(Augmented[k].VWAP) \/ Augmented[k].VWAP = NaN
            /\ ~DividedByZero(Augmented[k].VWAP)
            /\ CumVolume(k) # 0 =>
                  Augmented[k].VWAP = Fin(CumPriceVolume(k), 3 * CumVolume(k))

\* C26: Volume_Breakout at a bar is true exactly when Volume is strictly
\* greater than 3.0 x Volume_MA20 at that bar and the absolute percentage
\* change of Close from the previous bar is strictly greater than 0.5%; it
\* is false at every index below 19 and at index 0.
C26_VolumeBreakout ==
    pc = "done" =>
        \A k \in 1..Len(Augmented) :
            LET spike == /\ k >= 20
                         /\ 20 * df.rows[k].Volume > 3 * TrailingSum("Volume", k, 20)
                moved == /\ k >= 2
                         /\ 1000 * Abs(df.rows[k].Close - df.rows[k - 1].Close)
                               > 5 * df.rows[k - 1].Close
            IN  /\ Augmented[k].Volume_Breakout = (spike /\ moved)
                /\ k < 20 => Augmented[k].Volume_Breakout = FALSE

(***************************************************************************)
(* The dashboard runs its script again on every interaction: each run      *)
(* takes the series stored in the session, which the run before has        *)
(* augmented, and passes it to add_indicators again (app.py 19-21, 89).    *)
(* history keeps what the stored series held after each earlier run.       *)
(***************************************************************************)
IndRuns == 2

\* app.py 19-21, 89: the script runs again on the stored series
app_rerun ==
    /\ pc = "done"
    /\ Len(history) < IndRuns
    /\ history' = Append(history, heap["stock_data"])
    /\ result' = NoResult
    /\ pc' = "indicators_call"
    /\ UNCHANGED <<arguments, detect_locals, seen, heap>>

NextRerun == add_indicators_call \/ app_rerun

SpecRerun == InitInd /\ [][NextRerun]_vars

\* C29: add_indicators is idempotent under repeated application: applied
\* to its own output, as when the dashboard runs the pipeline again on the
\* stored series, it yields exactly the derived columns of a single
\* application.
C29_Idempotent ==
    /\ \A a \in 1..Len(history) : history[a] = history[1]
    /\ (pc = "done" /\ history # <<>>) =>
          /\ heap["stock_data"] = history[1]
          /\ heap["stock_data"].cols = OHLCV \cup IndicatorCols

\* C29's case: add_indicators has run three times on a 20-bar series with
\* rising closes and a volume spike, whose OBV is not zero and whose last
\* bar is a breakout.
C29_Witness ==
    /\ pc = "done"
    /\ Len(history) = 2
    /\ Len(df.rows) = 20
    /\ Augmented[20].Volume_Breakout
    /\ GtV(Augmented[20].OBV, Num(0))
    /\ IsFinite(Augmented[20].MA20)

(***************************************************************************)
(* The analysis pipeline of the dashboard on one series (app.py 89-130):   *)
(* add_indicators on the stored series, detect_candlestick_patterns on the *)
(* augmented series, and get_pattern_insights on the events detected, when *)
(* there are any.  The series is one that load_stock_data has sorted by    *)
(* Date (loader.py 115).  history names the stages that are over.          *)
(***************************************************************************)
InitPipeline ==
    /\ pc = "indicators_call"
    /\ \E n \in 1..MaxBars :
          \E shapes \in [1..n -> BarShapes] : df = SeriesOf(shapes, Ascending(n))
    /\ heap = [obj \in {"stock_data"} |-> df]
    /\ df_sorted = EmptyFrame
    /\ i = 0
    /\ patterns = <<>>
    /\ metadata = PyNone
    /\ patterns_df = EmptyFrame
    /\ seen = {}
    /\ file = NoFile
    /\ history = <<>>
    /\ result = NoResult

\* app.py 89-94: df = add_indicators(df), then the call
\* detect_candlestick_patterns(df)
app_detect ==
    /\ pc = "done"
    /\ history = <<>>
    /\ df' = heap[result.obj]
    /\ history' = <<"indicators">>
    /\ result' = NoResult
    /\ pc' = "detect_call"
    /\ UNCHANGED <<metadata, patterns_df, file, detect_locals, seen, heap>>

\* app.py 94, 128-130: patterns_df = the frame returned, and
\* "if not patterns_df.empty" the call get_pattern_insights(patterns_df, df)
app_insights ==
    /\ pc = "done"
    /\ history = <<"indicators">>
    /\ result.rows # <<>>
    /\ patterns_df' = result
    /\ history' = <<"indicators", "detection">>
    /\ result' = NoResult
    /\ pc' = "insight_call"
    /\ UNCHANGED <<df, metadata, file, detect_locals, seen, heap>>

NextPipeline ==
    add_indicators_call \/ app_detect \/ NextDetect \/ app_insights
        \/ get_pattern_insights_call

SpecPipeline == InitPipeline /\ [][NextPipeline]_vars

\* C30: for any event sequence produced by detect_candlestick_patterns the
\* only events of signal Neutral are Dojis, neutral_count in the insight is
\* 0, and bullish_count + bearish_count is the number of events that
\* survive the filters.
C30_NoNeutralCounted ==
    /\ \A a \in 1..Len(patterns) :
          patterns[a].Signal = "Neutral" => patterns[a].Pattern = "Doji"
    /\ (pc = "done" /\ history = <<"indicators">> /\ result.rows = <<>>) =>
          /\ get_pattern_insights(result, df).neutral_count = 0
          /\ get_pattern_insights(result, df).bullish_count = 0
          /\ get_pattern_insights(result, df).bearish_count = 0
    /\ (pc = "done" /\ history = <<"indicators", "detection">>) =>
          /\ result.neutral_count = 0
          /\ result.bullish_count + result.bearish_count = Len(result.all_patterns)
          /\ result.all_patterns = filtered_patterns(patterns_df, df)
          /\ \A b \in 1..Len(result.all_patterns) :
                result.all_patterns[b].Signal \in {"Bullish", "Bearish"}

\* C30's case: the detector has found a Doji and another event, and the
\* other event alone is counted.
C30_Witness ==
    /\ pc = "done"
    /\ history = <<"indicators", "detection">>
    /\ \E a \in 1..Len(patterns_df.rows) : patterns_df.rows[a].Pattern = "Doji"
    /\ result.neutral_count = 0
    /\ result.bullish_count + result.bearish_count = 1


=============================================================================
